---- MODULE Spec2Model ----
(***************************************************************************)
(* Model of the Loxone gateway core: the Connection Session                *)
(* (ConnectionManager), the State Cache (StateManager), the Event Router   *)
(* (EventHandlerService), the Device Manager (ControlManager) and the      *)
(* LoxoneSystem that wires them together.                                  *)
(*                                                                         *)
(* One action is one turn of the JavaScript event loop: a callback (an     *)
(* API call, a client notification, a timer, the settling of a promise of  *)
(* the external client) together with the promise continuations that run   *)
(* before the next callback.                                               *)
(***************************************************************************)
EXTENDS Integers, Sequences, FiniteSets, TLC

\* ---------------------------------------------------------------- bounds
\* the session specification
MaxOpens     == 1   \* LoxoneSystem.open() calls that reach initialize()
MaxShutdowns == 2   \* LoxoneSystem.shutdown() calls
MaxAttempts  == 2   \* connect() calls that start a handshake
\* the reconnection specification
MaxReconnectOpens    == 1
MaxReconnectAttempts == 4
\* the commands specification
MaxCommandOpens     == 1
MaxCommandShutdowns == 1
MaxCommandAttempts  == 1
\* the events specification
MaxSystemOpens     == 2
MaxSystemShutdowns == 1
MaxSystemAttempts  == 2
MaxSends     == 1   \* commands handed to the external client
MaxClock     == 1   \* ticks of the wall clock
MaxSnapshots == 1   \* maps returned by getAll() to the cache spec's caller
\* the queries specification
MaxQueryOpens     == 1
MaxQueryShutdowns == 1
MaxQueryAttempts  == 1
MaxViews     == 2   \* runtime views the caller of getControl()/getControls() holds
\* the initialization specification
MaxInitializes == 2 \* initialize() calls that construct a client
\* the retry specification
MaxRetries      == 4   \* the largest maxRetries handed to retry()
RetryOtherDelay == 250 \* a base delay other than the one loadStructure() uses
\* the outage specification
MaxOutageOpens    == 1
MaxOutageAttempts == 1
\* the event router specification
MaxRouterOpens     == 2
MaxRouterShutdowns == 1
MaxRouterAttempts  == 3

\* ------------------------------------------------------ program constants
MAX_RECONNECT_ATTEMPTS == 3
LoadStructureRetries   == 3
LoadStructureBaseDelay == 1000

\* ConnectionState enum
ConnectionState ==
  {"UNINITIALIZED", "INITIALIZED", "CONNECTING", "CONNECTED",
   "DISCONNECTING", "DISCONNECTED", "ERROR"}

\* ------------------------------------------------------------- variables
VARIABLES
  state,              \* ConnectionManager.state
  client,             \* ConnectionManager.client: 0 = undefined, else the id of the LoxoneClient
  structure,          \* ConnectionManager.structure: 0 = null, else a device graph
  structureLoaded,    \* ConnectionManager.structureLoaded
  reconnectAttempts,  \* ConnectionManager.reconnectAttempts
  authHandler,        \* ConnectionManager.authHandler: 0 = undefined, else the connect() call that made it
  errorHandler,       \* ConnectionManager.errorHandler, likewise
  clientListening,    \* clients that carry the listeners of setupEventHandlers
  onceAuth,           \* <<connect() call, client>>: its authHandler is a listener of that client
  onceDisc,           \* <<connect() call, client>>: its errorHandler is a listener of that client
  att,                \* the connect() calls that started a handshake
  nAtt,               \* how many of them there are
  reconnectTimers,    \* pending timers of handleReconnect
  structListeners,    \* 'structureLoaded' listeners on the ConnectionManager
  eventListeners,     \* 1 when the Event Router's handlers are on the value and text channels
  isListening,        \* EventHandlerService.isListening
  closing,            \* close() calls waiting for client.disconnect()
  initialized,        \* LoxoneSystem.initialized
  nOpens,             \* LoxoneClient objects constructed so far
  nShutdowns,         \* shutdown() calls so far
  cmStructure,        \* ControlManager.structure: 0 = null, else a device graph
  maps,               \* the Map objects: maps[LiveMap] is StateManager.stateCache
  snap,               \* the Maps a caller of getAll() holds
  views,              \* the runtime views a caller of getControl()/getControls() holds
  timeRequests,       \* <<client, state-id>>: a miniserver-time request the client has not answered
  clock,              \* the wall clock read by new Date()
  sent,               \* the texts handed to client.sendTextCommand, in order
  pendingCmds,        \* setControl() calls waiting for the response
  retryRun,           \* the call of retry() under study: its arguments, loop variables and history
  last                \* the last API call or notification and its outcome

vars == <<state, client, structure, structureLoaded, reconnectAttempts,
          authHandler, errorHandler, clientListening,
          onceAuth, onceDisc, att, nAtt, reconnectTimers, structListeners,
          eventListeners, isListening, closing, initialized, nOpens,
          nShutdowns, cmStructure, maps, snap, views, timeRequests, clock, sent, pendingCmds, retryRun, last>>

connVars == <<state, client, structure, structureLoaded, reconnectAttempts,
              authHandler, errorHandler, clientListening,
              onceAuth, onceDisc, att, nAtt, reconnectTimers, structListeners,
              closing, initialized, nOpens, nShutdowns>>

MaxOf(S) == CHOOSE x \in S : \A y \in S : y <= x

\* ===================================================== utils: bufferToUuid
Null == "null"

\* the uuid field of a BinaryEvent: absent, without data1, or four buffers
Buffers ==
  {[present |-> FALSE, data1 |-> 0, data2 |-> 0, data3 |-> 0, data4 |-> 0]}
  \cup [present : {TRUE}, data1 : {-1, 26, 27}, data2 : {0}, data3 : {1}, data4 : {255}]

bufferToUuid(buffer) ==
  LET HexDigit == <<"0", "1", "2", "3", "4", "5", "6", "7",
                    "8", "9", "a", "b", "c", "d", "e", "f">>
      \* Buffer.toString('hex') of a one-byte buffer
      ToHex(b) == HexDigit[(b \div 16) + 1] \o HexDigit[(b % 16) + 1]
  IN
  IF ~buffer.present \/ buffer.data1 = -1
    THEN Null
    ELSE ToHex(buffer.data1) \o "-" \o ToHex(buffer.data2) \o "-"
         \o ToHex(buffer.data3) \o "-" \o ToHex(buffer.data4)

\* the state-ids the device graphs refer to
StateId1 == "1a-00-01-ff"
StateId2 == "1b-00-01-ff"
StateIds == {StateId1, StateId2}

\* ============================================================ State Cache
\* payloads: <<kind, n>>; Undefined is JavaScript's undefined
Undefined == <<"undefined", 0>>
\* JavaScript's null as a state value
JsNull    == <<"null", 0>>
Payloads  == {<<"number", 0>>, <<"number", 1>>, <<"string", 0>>}

LiveMap == 0
MapIds  == 0 .. MaxOf({MaxSnapshots, MaxViews, 1})
Absent  == [uuid |-> Null, value |-> Undefined, lastUpdated |-> -1]
EmptyMap == [s \in StateIds |-> Absent]

\* StateValue built by updateValue
NewState(uuid, value, now) == [uuid |-> uuid, value |-> value, lastUpdated |-> now]

\* Map.prototype.set / delete on one Map object
MapSet(m, uuid, sv) == [m EXCEPT ![uuid] = sv]
MapDelete(m, uuid)  == [m EXCEPT ![uuid] = Absent]
MapHas(m, uuid)     == m[uuid] # Absent

\* StateManager
StateGet(uuid)      == maps[LiveMap][uuid]
StateGetValue(uuid) == IF MapHas(maps[LiveMap], uuid) THEN maps[LiveMap][uuid].value ELSE Undefined
StateHas(uuid)      == MapHas(maps[LiveMap], uuid)
StateSize           == Cardinality({s \in StateIds : maps[LiveMap][s] # Absent})

StateSet(ms, uuid, sv) == [ms EXCEPT ![LiveMap] = MapSet(ms[LiveMap], uuid, sv)]
\* an updateValue that refreshes known entries only
updateValue_OnlyExisting(ms, uuid, value, now) ==
  IF MapHas(ms[LiveMap], uuid)
    THEN [ms EXCEPT ![LiveMap] = MapSet(ms[LiveMap], uuid, NewState(uuid, value, now))]
    ELSE ms

updateValue(ms, uuid, value, now) == StateSet(ms, uuid, NewState(uuid, value, now))
StateClear(ms) == [ms EXCEPT ![LiveMap] = EmptyMap]

\* a getAll() that returns this.stateCache itself
getAllTarget_Live(fresh) == LiveMap

\* getAll(): new Map(this.stateCache) is the Map object `fresh`, filled from the live one
getAllTarget(fresh) == fresh
getAll(ms, fresh) == [ms EXCEPT ![getAllTarget(fresh)] = ms[LiveMap]]

\* ============================================== device graph and registry
NoGraph == 0
Graphs  == {1, 2}
DeviceIds == {"D1", "D2", "D3", "D4"}
\* details of a descriptor that the command builders read
\* (masterColor, subControls as <<key, type>>, outputs and timerModes by id),
\* and stateName, the key of the descriptor's one state in control.states
NoDetails == [masterColor |-> Null, subControls |-> {}, outputs |-> {}, timerModes |-> {},
              stateName |-> "value"]

\* a LoxoneControl of the structure file; uuidAction is Null when the entry lacks
\* it, state is the state-id of its one state
Control(type, room, cat, uuidAction, stateUuid) ==
  [type |-> type, room |-> room, cat |-> cat, uuidAction |-> uuidAction,
   state |-> stateUuid, details |-> NoDetails]

NoControl == Control(Null, Null, Null, Null, Null)

\* the structure files the Miniserver may return: controls by device id
Controls(g) ==
  IF g = 1
    THEN [d \in DeviceIds |->
           CASE d = "D1" -> Control("Switch", "R1", "C1", d, StateId1)
             [] d = "D2" -> Control("Dimmer", "R1", "C2", d, StateId2)
             [] d = "D4" -> Control("Switch", "R1", "C1", Null, StateId1)
             [] OTHER    -> NoControl]
    ELSE [d \in DeviceIds |->
           CASE d = "D2" -> Control("Dimmer", "R2", "C2", d, StateId2)
             [] d = "D3" -> Control("Daytimer", "R1", "C1", d, StateId1)
             [] d = "D4" -> Control("Webpage", "R2", "C1", d, StateId1)
             [] OTHER    -> NoControl]

\* isLoxoneControl: an object with name, type and uuidAction
isLoxoneControl(control) ==
  control # NoControl /\ control.type # Null /\ control.uuidAction # Null

\* ControlType enum: the tags with an implementation, some without, Unknown
Unknown == "Unknown"
ControlType ==
  {"Switch", "Dimmer", "Jalousie", "Gate", "Pushbutton", "Slider", "Alarm",
   "CentralAlarm", "AudioZone", "AudioZoneV2", "ColorPicker", "ColorPickerV2",
   "InfoOnlyDigital", "InfoOnlyAnalog", "EIBDimmer", "LightController",
   "LightControllerV2", "Radio", "TextState", "CentralAudioZone", "CentralGate",
   "CentralJalousie", "CentralWindow", "Meter", "IRoomControllerV2",
   "AlarmClock", "Daytimer", "DigitalInput", "EnergyManager2", "EnergyFlowMonitor",
   "EFM", "IRoomController", "Intercom", "IntercomV2", "Sauna", "TextInput",
   "Webpage", Unknown}

\* ControlTypeFactory.controlTypeMap: the implementation class of a tag
controlTypeMap ==
  [t \in {"Switch", "Dimmer", "EIBDimmer", "ColorPicker", "ColorPickerV2",
          "LightController", "LightControllerV2", "Jalousie", "Gate", "Slider",
          "Pushbutton", "Alarm", "CentralAlarm", "Meter", "InfoOnlyDigital",
          "DigitalInput", "InfoOnlyAnalog", "Radio", "IRoomControllerV2",
          "IRoomController", "AudioZone", "AudioZoneV2", "CentralAudioZone",
          "CentralGate", "CentralJalousie", "CentralWindow", "TextState",
          "IntercomV2", "Sauna", "EnergyManager2", "EnergyFlowMonitor"} |->
     CASE t = "DigitalInput"    -> "InfoOnlyDigital"
       [] t = "IRoomController" -> "IRoomControllerV2"
       [] OTHER                 -> t]

RegisteredKinds == DOMAIN controlTypeMap

\* ControlTypeFactory.typeAliases
typeAliases ==
  [t \in {"EFM", "TextInput", "Webpage"} |->
     IF t = "EFM" THEN "EnergyFlowMonitor" ELSE "TextState"]

\* a mapControlType that looks in the enum before the aliases
mapControlType_EnumFirst(typeString) ==
  IF typeString \in ControlType THEN typeString
  ELSE IF typeString \in DOMAIN typeAliases THEN typeAliases[typeString]
  ELSE Unknown

\* ControlTypeFactory.mapControlType: aliases first, then the enum, else Unknown
mapControlType(typeString) ==
  IF typeString \in DOMAIN typeAliases THEN typeAliases[typeString]
  ELSE IF typeString \in ControlType THEN typeString
  ELSE Unknown

\* control?.type || ''
TypeOf(control) == IF control.type = Null THEN "" ELSE control.type

\* a registry that supports every tag of the enum
isSupported_AnyTag(control) == mapControlType(TypeOf(control)) # Unknown

\* ControlTypeFactory.isSupported
isSupported(control) ==
  /\ mapControlType(TypeOf(control)) # Unknown
  /\ mapControlType(TypeOf(control)) \in DOMAIN controlTypeMap

\* ControlTypeFactory.create: the implementation class for a descriptor
create(control) ==
  IF mapControlType(TypeOf(control)) \in DOMAIN controlTypeMap
    THEN controlTypeMap[mapControlType(TypeOf(control))]
    ELSE "Generic"

\* a missing value
undefined == "undefined"

WirePrefix == "jdev/sps/io/"
Built(tokens)  == [ok |-> TRUE, text |-> tokens]
Raised(tokens) == [ok |-> FALSE, text |-> tokens]

\* values of a command: undefined, numbers (a text of digits is the number it
\* spells) and other texts
NumberOf(v) == CASE v = "0" -> 0 [] v = "40" -> 40 [] v = "75" -> 75 [] OTHER -> -1

\* typeof value === 'number'
IsNumber(value) == NumberOf(value) >= 0

\* !!value: undefined, the number 0 and the empty text are falsy
ToBoolean(value) == value \notin {undefined, "0", ""}

\* value.toString().replace(/[()]/g, '')
StripParens(value) == IF value = "(0,100,100)" THEN "0,100,100" ELSE value

\* `jdev/sps/io/${uuid}/${word}` and the error `Invalid command ${command} for ${kind}`
Simple(uuid, word) == Built(<<WirePrefix, uuid, "/", word>>)
Invalid(command, kind) == Raised(<<"Invalid command ", command, " for " \o kind>>)

SwitchControl_buildControlCommand(uuid, command, value) ==
  IF command = "on" \/ command = "off"
    THEN Built(<<WirePrefix, uuid, "/", command>>)
    ELSE Raised(<<"Invalid command ", command, " for Switch">>)

DimmerControl_buildControlCommand(uuid, command, value) ==
  IF command = "on" \/ command = "off"
    THEN Built(<<WirePrefix, uuid, "/", command>>)
    ELSE IF command = "setValue" /\ value # undefined
      THEN Built(<<WirePrefix, uuid, "/", value>>)
      ELSE Raised(<<"Invalid command ", command, " for Dimmer">>)

GenericControl_buildControlCommand(uuid, type, command, value) ==
  IF command = "pulse"
    THEN Built(<<WirePrefix, uuid, "/", "pulse">>)
    ELSE IF command = "setValue" /\ value # undefined
      THEN Built(<<WirePrefix, uuid, "/", value>>)
      ELSE Raised(<<"Unknown command ", command, " for control type ", type>>)

EnergyFlowMonitorControl_buildControlCommand(uuid, command, value) ==
  Invalid(command, "Energy Flow Monitor")

EIBDimmerControl_buildControlCommand(uuid, command, value) ==
  IF command = "on" THEN Simple(uuid, "on")
  ELSE IF command = "off" THEN Simple(uuid, "off")
  ELSE IF command = "setValue" /\ value # undefined THEN Simple(uuid, value)
  ELSE Invalid(command, "EIBDimmer")

ColorPickerControl_buildControlCommand(uuid, command, value) ==
  IF command = "on" \/ command = "off" THEN Simple(uuid, command)
  ELSE IF command = "hsv" /\ ToBoolean(value)
    THEN Built(<<WirePrefix, uuid, "/", "hsv", "(", StripParens(value), ")">>)
  ELSE IF command = "lumitech" /\ ToBoolean(value)
    THEN Built(<<WirePrefix, uuid, "/", "lumitech", "(", StripParens(value), ")">>)
  ELSE Invalid(command, "ColorPicker")

ColorPickerV2Control_buildControlCommand(uuid, command, value) ==
  IF command = "setBrightness" /\ ToBoolean(value)
    THEN Built(<<WirePrefix, uuid, "/", "setBrightness", "/", value>>)
  ELSE IF command = "hsv" /\ ToBoolean(value)
    THEN Built(<<WirePrefix, uuid, "/", "hsv", "(", StripParens(value), ")">>)
  ELSE IF command = "temp" /\ ToBoolean(value)
    THEN Built(<<WirePrefix, uuid, "/", "temp", "(", StripParens(value), ")">>)
  ELSE IF command = "daylight" /\ ToBoolean(value)
    THEN Built(<<WirePrefix, uuid, "/", "daylight", "(", value, ")">>)
  ELSE Invalid(command, "ColorPickerV2")

LightController_buildControlCommand(uuid, command, value) ==
  LET \* value.toString().split(','): the first and the second piece ('' when missing)
      Split(x) ==
        CASE x = "0,100,100"   -> <<"0", "100">>
          [] x = "(0,100,100)" -> <<"(0", "100">>
          [] OTHER             -> <<x, "">>
  IN
  IF command = "on" THEN Simple(uuid, "on")
  ELSE IF command = "off" THEN Simple(uuid, "off")
  ELSE IF command = "setScene" /\ value # undefined THEN Simple(uuid, value)
  ELSE IF command = "plus" THEN Simple(uuid, "plus")
  ELSE IF command = "minus" THEN Simple(uuid, "minus")
  ELSE IF command = "learnScene" /\ value # undefined
    THEN Built(<<WirePrefix, uuid, "/",
                 IF ToBoolean(value) THEN Split(value)[1] ELSE "", "/learn/",
                 IF ToBoolean(value) THEN Split(value)[2] ELSE "">>)
  ELSE Invalid(command, "LightController")

\* LightControllerV2: details.masterColor, else the key of a ColorPickerV2
\* sub-control, else undefined
LightControllerV2Control_buildControlCommand(uuid, control, command, value) ==
  LET colorPickerUuid ==
        IF control.details.masterColor # Null THEN control.details.masterColor
        ELSE IF \E sub \in control.details.subControls : sub[2] = "ColorPickerV2"
          THEN (CHOOSE sub \in control.details.subControls : sub[2] = "ColorPickerV2")[1]
        ELSE undefined
  IN IF command = "on" \/ command = "off" THEN Simple(uuid, command)
     ELSE IF command \in {"hsv", "temp", "setBrightness"}
       THEN IF colorPickerUuid # undefined
              THEN IF command = "setBrightness" /\ ToBoolean(value)
                     THEN Built(<<WirePrefix, colorPickerUuid, "/", "setBrightness", "/", value>>)
                   ELSE IF command = "hsv" /\ ToBoolean(value)
                     THEN Built(<<WirePrefix, colorPickerUuid, "/", "hsv", "(",
                                  StripParens(value), ")">>)
                   ELSE IF command = "temp" /\ ToBoolean(value)
                     THEN Built(<<WirePrefix, colorPickerUuid, "/", "temp", "(",
                                  StripParens(value), ")">>)
                   ELSE Raised(<<"Missing value for ", command, " command">>)
              ELSE Raised(<<"LightControllerV2 ", uuid, " does not have color control capability">>)
     ELSE Invalid(command, "LightControllerV2")

JalousieControl_buildControlCommand(uuid, command, value) ==
  IF command \in {"up", "down", "stop"} THEN Simple(uuid, command)
  ELSE IF command = "setPosition" /\ value # undefined THEN Simple(uuid, value)
  ELSE Invalid(command, "Jalousie")

InfoOnlyDigitalControl_buildControlCommand(uuid, command, value) ==
  Raised(<<"InfoOnlyDigital", " controls are read-only and have no commands">>)

InfoOnlyAnalogControl_buildControlCommand(uuid, command, value) ==
  Raised(<<"InfoOnlyAnalog", " controls are read-only and have no commands">>)

MeterControl_buildControlCommand(uuid, command, value) ==
  Raised(<<"Meter", " controls are read-only and have no commands">>)

TextStateControl_buildControlCommand(uuid, command, value) ==
  Raised(<<"TextState", " controls are read-only">>)

GateControl_buildControlCommand(uuid, command, value) ==
  IF command \in {"open", "close", "stop"} THEN Simple(uuid, command)
  ELSE Invalid(command, "Gate")

CentralGateControl_buildControlCommand(uuid, command, value) ==
  IF command \in {"open", "close", "stop"} THEN Simple(uuid, command)
  ELSE Invalid(command, "CentralGate")

AlarmControl_buildControlCommand(uuid, command, value) ==
  IF command \in {"arm", "disarm", "acknowledge"} THEN Simple(uuid, command)
  ELSE Invalid(command, "Alarm")

CentralAlarmControl_buildControlCommand(uuid, command, value) ==
  IF command \in {"on", "off", "quit", "delayedOn"} THEN Simple(uuid, command)
  ELSE Invalid(command, "CentralAlarm")

PushbuttonControl_buildControlCommand(uuid, command, value) ==
  IF command = "pulse" THEN Simple(uuid, "pulse")
  ELSE Invalid(command, "Pushbutton")

\* command.startsWith('select/'), command.substring(7), command.match(/^\d+$/)
RadioControl_buildControlCommand(uuid, command, value) ==
  LET StartsWithSelect == command \in {"select/1", "select/2"}
      Substring7 == IF command = "select/1" THEN "1" ELSE "2"
      IsDigits == command \in {"1", "2"}
  IN IF StartsWithSelect THEN Simple(uuid, Substring7)
     ELSE IF command = "reset" THEN Simple(uuid, "reset")
     ELSE IF IsDigits THEN Simple(uuid, command)
     ELSE Raised(<<"Invalid command ", command, " for Radio", ". Use select/N or reset">>)

SliderControl_buildControlCommand(uuid, command, value) ==
  IF command = "setValue" /\ value # undefined THEN Simple(uuid, value)
  ELSE Invalid(command, "Slider")

IRoomControllerV2Control_buildControlCommand(uuid, command, value) ==
  IF command = "setTemperature" /\ value # undefined
    THEN Built(<<WirePrefix, uuid, "/", "setComfortTemperature", "/", value>>)
  ELSE IF command = "setMode" /\ value # undefined
    THEN Built(<<WirePrefix, uuid, "/", "setOperatingMode", "/", value>>)
  ELSE Invalid(command, "Room Controller")

AudioZoneControl_buildControlCommand(uuid, command, value) ==
  IF command \in {"play", "pause", "stop", "next", "previous", "volumeUp", "volumeDown", "mute"}
    THEN Simple(uuid, command)
  ELSE IF command = "setVolume" /\ value # undefined
    THEN Built(<<WirePrefix, uuid, "/", "volume", "/", value>>)
  ELSE Invalid(command, "AudioZone")

AudioZoneV2Control_buildControlCommand(uuid, command, value) ==
  IF command \in {"play", "pause", "next", "prev", "volUp", "volDown"}
    THEN Simple(uuid, command)
  ELSE IF command = "volume" /\ value # undefined
    THEN Built(<<WirePrefix, uuid, "/", "volume", "/", value>>)
  ELSE Invalid(command, "AudioZone")

CentralAudioZoneControl_buildControlCommand(uuid, command, value) ==
  IF command \in {"play", "pause", "volumeUp", "volumeDown"} THEN Simple(uuid, command)
  ELSE Invalid(command, "CentralAudioZone")

CentralJalousieControl_buildControlCommand(uuid, command, value) ==
  IF command = "fullUp" \/ command = "fullDown" THEN Simple(uuid, command)
  ELSE Invalid(command, "CentralJalousie")

CentralWindowControl_buildControlCommand(uuid, command, value) ==
  IF command \in {"toggle", "fullOpen", "fullClose"} THEN Simple(uuid, command)
  ELSE IF command = "moveToPosition" /\ value # undefined
    THEN Built(<<WirePrefix, uuid, "/", "moveToPosition", "/", value>>)
  ELSE IF (command = "open" \/ command = "close") /\ (value = "on" \/ value = "off")
    THEN Built(<<WirePrefix, uuid, "/", command, "/", value>>)
  ELSE Invalid(command, "CentralWindow")

SaunaControl_buildControlCommand(uuid, command, value) ==
  CASE command = "on"      -> Simple(uuid, "on")
    [] command = "off"     -> Simple(uuid, "off")
    [] command = "fan-on"  -> Simple(uuid, "fanon")
    [] command = "fan-off" -> Simple(uuid, "fanoff")
    [] command = "setTemperature" /\ value # undefined /\ IsNumber(value) ->
         Built(<<WirePrefix, uuid, "/", "temp", "/", value>>)
    [] OTHER -> Invalid(command, "Sauna")

IntercomV2Control_buildControlCommand(uuid, command, value) ==
  Invalid(command, "Intercom")

EnergyManager2Control_buildControlCommand(uuid, command, value) ==
  Invalid(command, "Energy Manager Gen. 2")

\* controlInstance.buildControlCommand(command, value) of the class create() chose
buildControlCommand(uuid, control, command, value) ==
  CASE create(control) = "Switch" -> SwitchControl_buildControlCommand(uuid, command, value)
    [] create(control) = "Dimmer" -> DimmerControl_buildControlCommand(uuid, command, value)
    [] create(control) = "EIBDimmer" -> EIBDimmerControl_buildControlCommand(uuid, command, value)
    [] create(control) = "ColorPicker" -> ColorPickerControl_buildControlCommand(uuid, command, value)
    [] create(control) = "ColorPickerV2" -> ColorPickerV2Control_buildControlCommand(uuid, command, value)
    [] create(control) = "LightController" -> LightController_buildControlCommand(uuid, command, value)
    [] create(control) = "LightControllerV2" ->
         LightControllerV2Control_buildControlCommand(uuid, control, command, value)
    [] create(control) = "Jalousie" -> JalousieControl_buildControlCommand(uuid, command, value)
    [] create(control) = "Gate" -> GateControl_buildControlCommand(uuid, command, value)
    [] create(control) = "Slider" -> SliderControl_buildControlCommand(uuid, command, value)
    [] create(control) = "Pushbutton" -> PushbuttonControl_buildControlCommand(uuid, command, value)
    [] create(control) = "Alarm" -> AlarmControl_buildControlCommand(uuid, command, value)
    [] create(control) = "CentralAlarm" -> CentralAlarmControl_buildControlCommand(uuid, command, value)
    [] create(control) = "Meter" -> MeterControl_buildControlCommand(uuid, command, value)
    [] create(control) = "InfoOnlyDigital" -> InfoOnlyDigitalControl_buildControlCommand(uuid, command, value)
    [] create(control) = "InfoOnlyAnalog" -> InfoOnlyAnalogControl_buildControlCommand(uuid, command, value)
    [] create(control) = "Radio" -> RadioControl_buildControlCommand(uuid, command, value)
    [] create(control) = "IRoomControllerV2" ->
         IRoomControllerV2Control_buildControlCommand(uuid, command, value)
    [] create(control) = "AudioZone" -> AudioZoneControl_buildControlCommand(uuid, command, value)
    [] create(control) = "AudioZoneV2" -> AudioZoneV2Control_buildControlCommand(uuid, command, value)
    [] create(control) = "CentralAudioZone" ->
         CentralAudioZoneControl_buildControlCommand(uuid, command, value)
    [] create(control) = "CentralGate" -> CentralGateControl_buildControlCommand(uuid, command, value)
    [] create(control) = "CentralJalousie" ->
         CentralJalousieControl_buildControlCommand(uuid, command, value)
    [] create(control) = "CentralWindow" -> CentralWindowControl_buildControlCommand(uuid, command, value)
    [] create(control) = "TextState" -> TextStateControl_buildControlCommand(uuid, command, value)
    [] create(control) = "IntercomV2" -> IntercomV2Control_buildControlCommand(uuid, command, value)
    [] create(control) = "Sauna" -> SaunaControl_buildControlCommand(uuid, command, value)
    [] create(control) = "EnergyManager2" -> EnergyManager2Control_buildControlCommand(uuid, command, value)
    [] create(control) = "EnergyFlowMonitor" ->
         EnergyFlowMonitorControl_buildControlCommand(uuid, command, value)
    [] OTHER -> GenericControl_buildControlCommand(uuid, mapControlType(TypeOf(control)), command, value)

\* availableControlCommands() of the class create() chose (details.min and
\* details.max are absent, so the ranges are the defaults)
availableControlCommands(control) ==
  LET \* LightControllerV2Control.hasColorPicker
      hasColorPicker(c) ==
        \/ c.details.masterColor # Null
        \/ \E sub \in c.details.subControls : sub[2] \in {"ColorPicker", "ColorPickerV2"}
      \* a declared command: its name, the type of its value ("none" without
      \* one) and the range or the options of the value
      Cmd(name)              == [name |-> name, valueType |-> "none", min |-> 0, max |-> 0, options |-> {}]
      NumCmd(name, min, max) == [name |-> name, valueType |-> "number", min |-> min, max |-> max, options |-> {}]
      StrCmd(name)           == [name |-> name, valueType |-> "string", min |-> 0, max |-> 0, options |-> {}]
      EnumCmd(name, options) == [name |-> name, valueType |-> "enum", min |-> 0, max |-> 0, options |-> options]
  IN
  CASE create(control) \in {"Switch"} -> {Cmd("on"), Cmd("off")}
    [] create(control) \in {"Dimmer", "EIBDimmer"} ->
         {Cmd("on"), Cmd("off"), NumCmd("setValue", 0, 100)}
    [] create(control) = "ColorPicker" -> {StrCmd("hsv")}
    [] create(control) = "ColorPickerV2" ->
         {StrCmd("hsv"), StrCmd("temp"), NumCmd("setBrightness", 0, 100), NumCmd("daylight", 0, 100)}
    [] create(control) = "LightController" ->
         {Cmd("on"), Cmd("off"), NumCmd("setScene", 0, 9), Cmd("plus"), Cmd("minus")}
    [] create(control) = "LightControllerV2" ->
         {Cmd("on"), Cmd("off")} \cup
         (IF hasColorPicker(control)
            THEN {StrCmd("hsv"), StrCmd("temp"), NumCmd("setBrightness", 0, 100)} ELSE {})
    [] create(control) = "Jalousie" ->
         {Cmd("up"), Cmd("down"), Cmd("stop"), NumCmd("setPosition", 0, 100)}
    [] create(control) \in {"Gate", "CentralGate"} -> {Cmd("open"), Cmd("close"), Cmd("stop")}
    [] create(control) = "Slider" -> {NumCmd("setValue", 0, 100)}
    [] create(control) = "Pushbutton" -> {Cmd("pulse")}
    [] create(control) = "Alarm" -> {Cmd("arm"), Cmd("disarm"), Cmd("acknowledge")}
    [] create(control) = "CentralAlarm" -> {Cmd("on"), Cmd("off"), Cmd("quit"), Cmd("delayedOn")}
    [] create(control) = "Radio" ->
         {Cmd(IF id = 1 THEN "select/1" ELSE "select/2") : id \in control.details.outputs}
         \cup {Cmd("reset")}
    [] create(control) = "IRoomControllerV2" ->
         {NumCmd("setTemperature", 0, 35)} \cup
         (IF control.details.timerModes # {}
            THEN {EnumCmd("setMode", control.details.timerModes)} ELSE {})
    [] create(control) = "AudioZone" ->
         {Cmd("play"), Cmd("pause"), Cmd("stop"), Cmd("next"), Cmd("previous"),
          Cmd("volumeUp"), Cmd("volumeDown"), NumCmd("setVolume", 0, 100), Cmd("mute")}
    [] create(control) = "AudioZoneV2" ->
         {Cmd("play"), Cmd("pause"), Cmd("next"), Cmd("prev"), Cmd("volUp"),
          Cmd("volDown"), NumCmd("volume", 0, 100)}
    [] create(control) = "CentralAudioZone" ->
         {Cmd("play"), Cmd("pause"), Cmd("volumeUp"), Cmd("volumeDown")}
    [] create(control) = "CentralJalousie" -> {Cmd("fullUp"), Cmd("fullDown")}
    [] create(control) = "CentralWindow" ->
         {Cmd("toggle"), Cmd("fullOpen"), Cmd("fullClose"), NumCmd("moveToPosition", 0, 100)}
    [] create(control) = "Sauna" ->
         {Cmd("on"), Cmd("off"), Cmd("fan-on"), Cmd("fan-off"), NumCmd("setTemperature", 40, 110)}
    [] OTHER -> {}

\* ===================================================== history of calls
\* The outcome of the last call or notification, kept for one step.
NoCall == [op |-> "none", pre |-> "none", res |-> "none", handed |-> FALSE,
           builds |-> 0, text |-> <<>>, uuid |-> Null, payload |-> Undefined,
           attempts |-> 0, command |-> Null, value |-> Null,
           room |-> Null, cat |-> Null, result |-> {}, config |-> Null]

Outcome(op, pre, res) == [NoCall EXCEPT !.op = op, !.pre = pre, !.res = res]

\* ================================================================== Init
Attempts == 1 .. MaxOf({MaxAttempts, MaxReconnectAttempts, MaxCommandAttempts, MaxSystemAttempts,
                        MaxQueryAttempts, MaxRouterAttempts,
                        MaxOutageAttempts})
Clients  == 1 .. MaxOf({MaxOpens, MaxReconnectOpens, MaxCommandOpens, MaxSystemOpens,
                        MaxQueryOpens, MaxInitializes, MaxRouterOpens,
                        MaxOutageOpens})

\* no retry() call under study; lastError is unassigned (undefined)
NoRetry == [pc |-> "idle", maxRetries |-> 0, baseDelay |-> 0, i |-> 0, calls |-> 0,
            waits |-> <<>>, lastError |-> "undefined", result |-> "undefined",
            outcomes |-> <<>>]

\* a connect() call: where it waits, its authPromise, its timeout timer, its client
NoAttempt == [pc |-> "unused", auth |-> "pending", timer |-> "none",
              by |-> "none", retryI |-> 0]

\* the state after `new LoxoneSystem(options)`: the Event Router listens from construction
Init ==
  /\ state = "UNINITIALIZED"
  /\ client = 0
  /\ structure = NoGraph
  /\ structureLoaded = FALSE
  /\ reconnectAttempts = 0
  /\ authHandler = 0
  /\ errorHandler = 0
  /\ clientListening = {}
  /\ onceAuth = {}
  /\ onceDisc = {}
  /\ att = [a \in Attempts |-> NoAttempt]
  /\ nAtt = 0
  /\ reconnectTimers = 0
  /\ structListeners = 0
  /\ eventListeners = 1
  /\ isListening = TRUE
  /\ closing = 0
  /\ initialized = FALSE
  /\ nOpens = 0
  /\ nShutdowns = 0
  /\ cmStructure = NoGraph
  /\ maps = [m \in MapIds |-> EmptyMap]
  /\ snap = {}
  /\ views = {}
  /\ timeRequests = {}
  /\ clock = 0
  /\ sent = <<>>
  /\ pendingCmds = 0
  /\ retryRun = NoRetry
  /\ last = NoCall

\* an isConnected() that reports a connection as long as a graph is loaded
isConnected_WhileLoaded == structureLoaded

\* ==================================================== Connection Session
isConnected == state = "CONNECTED"

\* cleanupAuthHandlers(): the fields and the client's listener lists afterwards.
\* client.off() acts on the current client only.
CleanedField(h) == IF client # 0 THEN 0 ELSE h
CleanedOnce(once, h) == IF client # 0 /\ h # 0 THEN once \ {<<h, client>>} ELSE once

\* a catch block of connect() that rethrows without touching the state
connectCatch_KeepsState(st) == st

\* the catch block of connect(): whatever the state was, it is ERROR afterwards
connectCatch(st) == "ERROR"

\* a connect() call that has settled
Settle(a) == [a EXCEPT !.pc = "done", !.auth = "settled", !.by = "none", !.retryI = 0]

\* a connect() that loads the graph without enabling the live updates first
AfterAuth_SkipsUpdates(a) ==
  IF client # 0 THEN [a EXCEPT !.pc = "getStructure", !.auth = "settled"] ELSE Settle(a)

\* connect() lines 169-171 once the race is won: CONNECTED, then enableUpdates()
\* calls the client, or throws when the client is gone and the catch sets ERROR
AfterAuth(a) ==
  IF client # 0 THEN [a EXCEPT !.pc = "enableUpdates", !.auth = "settled"] ELSE Settle(a)
StateAfterAuth == IF client # 0 THEN "CONNECTED" ELSE connectCatch("CONNECTED")

\* an initialize() that accepts the secure protocols
initializeCheck_AllowsSecure(config) ==
  IF config.host \in {undefined, ""} \/ config.username \in {undefined, ""}
       \/ config.password \in {undefined, ""}
    THEN "Loxone host, port username and password must be provided"
  ELSE IF config.protocol \notin {undefined, ""} /\ config.protocol \notin {"http", "https"}
    THEN "Unsupported protocol"
  ELSE IF config.wsProtocol \notin {undefined, ""} /\ config.wsProtocol \notin {"ws", "wss"}
    THEN "Unsupported WebSocket protocol"
  ELSE "ok"

\* the checks of initialize(), lines 53-64, in their order
initializeCheck(config) ==
  IF config.host \in {undefined, ""} \/ config.username \in {undefined, ""}
       \/ config.password \in {undefined, ""}
    THEN "Loxone host, port username and password must be provided"
  ELSE IF config.protocol \notin {undefined, ""} /\ config.protocol \notin {"http", "https"}
    THEN "Unsupported protocol"
  ELSE IF config.wsProtocol \notin {undefined, ""} /\ config.wsProtocol \notin {"ws", "wss"}
    THEN "Unsupported WebSocket protocol"
  ELSE IF config.protocol = "https" \/ config.wsProtocol = "wss"
    THEN "HTTPS/WSS protocol is not supported"
  ELSE "ok"

\* ConnectionManager.initialize(config): throws before any assignment, or
\* constructs a client, attaches the listeners of setupEventHandlers() to it and
\* sets INITIALIZED
Initialize(config) ==
  /\ last' = [Outcome("initialize", state, initializeCheck(config)) EXCEPT !.config = config]
  /\ IF initializeCheck(config) = "ok"
       THEN /\ nOpens < MaxInitializes
            /\ nOpens' = nOpens + 1
            /\ client' = nOpens + 1
            /\ clientListening' = clientListening \cup {nOpens + 1}
            /\ state' = "INITIALIZED"
       ELSE UNCHANGED <<nOpens, client, clientListening, state>>
  /\ UNCHANGED <<structure, structureLoaded, reconnectAttempts, authHandler, errorHandler,
                 onceAuth, onceDisc, att, nAtt, reconnectTimers, structListeners,
                 eventListeners, isListening, closing, initialized, nShutdowns,
                 cmStructure, maps, snap, views, timeRequests, clock, sent, pendingCmds, retryRun>>

\* a 'connected' listener that resets the reconnect counter
ClientConnected_ResetsCounter(g) ==
  /\ g \in clientListening
  /\ state = "CONNECTING"
  /\ state' = "CONNECTED"
  /\ reconnectAttempts' = 0
  /\ last' = NoCall
  /\ UNCHANGED <<client, structure, structureLoaded, authHandler,
                 errorHandler, clientListening, onceAuth, onceDisc, att,
                 nAtt, reconnectTimers, structListeners, eventListeners, isListening,
                 closing, initialized, nOpens, nShutdowns, cmStructure, maps, snap, views, timeRequests,
                 clock, sent, pendingCmds, retryRun>>

\* client.on('connected')
ClientConnected(g) ==
  /\ g \in clientListening
  /\ state = "CONNECTING"
  /\ state' = "CONNECTED"
  /\ last' = NoCall
  /\ UNCHANGED <<client, structure, structureLoaded, reconnectAttempts, authHandler,
                 errorHandler, clientListening, onceAuth, onceDisc, att,
                 nAtt, reconnectTimers, structListeners, eventListeners, isListening,
                 closing, initialized, nOpens, nShutdowns, cmStructure, maps, snap, views, timeRequests,
                 clock, sent, pendingCmds, retryRun>>

\* a 'disconnected' listener that reconnects without looking at the counter
StartsReconnect_NoCap(wasConnected, attempts) == wasConnected

\* a 'disconnected' listener that reconnects whatever the state was
StartsReconnect_AnyState(wasConnected, attempts) == attempts < MAX_RECONNECT_ATTEMPTS

\* whether the 'disconnected' listener calls handleReconnect()
StartsReconnect(wasConnected, attempts) ==
  wasConnected /\ attempts < MAX_RECONNECT_ATTEMPTS

\* client.on('disconnected'), then the errorHandler of every connect() call
\* registered on that client; a call waiting in the race rejects and its
\* catch block sets ERROR
ClientDisconnected(g) ==
  /\ g \in clientListening
  /\ LET S == {a \in Attempts : <<a, g>> \in onceDisc}
         R == {a \in S : att[a].pc = "race"}
         reconnect == StartsReconnect(state = "CONNECTED", reconnectAttempts)
     IN /\ reconnectAttempts' = IF reconnect THEN reconnectAttempts + 1 ELSE reconnectAttempts
        /\ reconnectTimers' = IF reconnect THEN reconnectTimers + 1 ELSE reconnectTimers
        /\ onceDisc' = IF S = {} THEN onceDisc ELSE CleanedOnce(onceDisc, errorHandler) \ {<<a, g>> : a \in S}
        /\ onceAuth' = IF S = {} THEN onceAuth ELSE CleanedOnce(onceAuth, authHandler)
        /\ authHandler' = IF S = {} THEN authHandler ELSE CleanedField(authHandler)
        /\ errorHandler' = IF S = {} THEN errorHandler ELSE CleanedField(errorHandler)
        /\ att' = [a \in Attempts |->
                    IF a \in R THEN Settle(att[a])
                    ELSE IF a \in S /\ att[a].auth = "pending"
                      THEN [att[a] EXCEPT !.auth = "rejected"]
                      ELSE att[a]]
        /\ state' = IF R = {} THEN "DISCONNECTED" ELSE connectCatch("DISCONNECTED")
        /\ last' = [Outcome("disconnected", state,
                            IF R = {} THEN "none" ELSE "Connection failed")
                      EXCEPT !.attempts = reconnectAttempts]
  /\ UNCHANGED <<client, structure, structureLoaded, clientListening,
                 nAtt, structListeners, eventListeners, isListening, closing,
                 initialized, nOpens, nShutdowns, cmStructure, maps, snap, views, timeRequests, clock,
                 sent, pendingCmds, retryRun>>

\* client.on('authenticated'), then the authHandler of every connect() call
\* registered on that client; a call waiting in the race goes on to line 170
ClientAuthenticated(g) ==
  /\ g \in clientListening
  /\ LET S == {a \in Attempts : <<a, g>> \in onceAuth}
         R == {a \in S : att[a].pc = "race"}
     IN /\ reconnectAttempts' = 0
        /\ onceAuth' = IF S = {} THEN onceAuth ELSE CleanedOnce(onceAuth, authHandler) \ {<<a, g>> : a \in S}
        /\ onceDisc' = IF S = {} THEN onceDisc ELSE CleanedOnce(onceDisc, errorHandler)
        /\ authHandler' = IF S = {} THEN authHandler ELSE CleanedField(authHandler)
        /\ errorHandler' = IF S = {} THEN errorHandler ELSE CleanedField(errorHandler)
        /\ att' = [a \in Attempts |->
                    IF a \in R THEN AfterAuth(att[a])
                    ELSE IF a \in S /\ att[a].auth = "pending"
                      THEN [att[a] EXCEPT !.auth = "resolved"]
                      ELSE att[a]]
        /\ state' = IF R = {} THEN state ELSE StateAfterAuth
        /\ last' = [Outcome("authenticated", state,
                            IF R = {} THEN "none"
                            ELSE IF client # 0 THEN "none" ELSE "Client not initialized")
                      EXCEPT !.attempts = reconnectAttempts]
  /\ UNCHANGED <<client, structure, structureLoaded, clientListening,
                 nAtt, reconnectTimers, structListeners, eventListeners, isListening,
                 closing, initialized, nOpens, nShutdowns, cmStructure, maps, snap, views, timeRequests,
                 clock, sent, pendingCmds, retryRun>>

\* connect() without the CONNECTED guard of lines 128-131
connectCheck_NoConnectedGuard(c, st) ==
  IF c = 0 \/ st = "UNINITIALIZED" THEN "ConnectionManager not initialized"
  ELSE IF st = "CONNECTING" THEN "Connection already in progress"
  ELSE "start"

\* the guards of connect(), lines 125-135
connectCheck(c, st) ==
  IF c = 0 \/ st = "UNINITIALIZED" THEN "ConnectionManager not initialized"
  ELSE IF st = "CONNECTED" THEN "Already connected"
  ELSE IF st = "CONNECTING" THEN "Connection already in progress"
  ELSE "start"

\* connect() lines 137-159: the handshake a call starts on client c
NewAttempt(by) == [pc |-> "clientConnect", auth |-> "pending", timer |-> "none",
                    by |-> by, retryI |-> 0]

\* the timer of handleReconnect() fires and calls connect(); a throw is logged
ReconnectTimerFire(maxAttempts) ==
  /\ reconnectTimers > 0
  /\ reconnectTimers' = reconnectTimers - 1
  /\ LET check == connectCheck(client, state)
         a == nAtt + 1
     IN /\ last' = Outcome("connect", state, check)
        /\ IF check = "start"
             THEN /\ nAtt < maxAttempts
                  /\ state' = "CONNECTING"
                  /\ authHandler' = a
                  /\ errorHandler' = a
                  /\ onceAuth' = onceAuth \cup {<<a, client>>}
                  /\ onceDisc' = onceDisc \cup {<<a, client>>}
                  /\ att' = [att EXCEPT ![a] = NewAttempt("timer")]
                  /\ nAtt' = a
             ELSE /\ state' = IF check = "ConnectionManager not initialized"
                                THEN connectCatch(state) ELSE state
                  /\ UNCHANGED <<authHandler, errorHandler, onceAuth, onceDisc,
                                 att, nAtt>>
  /\ UNCHANGED <<client, structure, structureLoaded, reconnectAttempts, clientListening,
                 structListeners, eventListeners, isListening, closing, initialized,
                 nOpens, nShutdowns, cmStructure, maps, snap, views, timeRequests, clock, sent, pendingCmds, retryRun>>

\* LoxoneSystem.open(): returns when already initialized; otherwise subscribes to
\* 'structureLoaded', initialize() constructs a client with its listeners and
\* connect() starts the handshake
Open(maxOpens, maxAttempts) ==
  IF initialized
    THEN /\ last' = Outcome("open", state, "Already initialized")
         /\ UNCHANGED <<state, client, structure, structureLoaded, reconnectAttempts,
                        authHandler, errorHandler, clientListening,
                        onceAuth, onceDisc, att, nAtt, reconnectTimers, structListeners,
                        eventListeners, isListening, closing, initialized, nOpens,
                        nShutdowns, cmStructure, maps, snap, views, timeRequests, clock, sent, pendingCmds, retryRun>>
    ELSE /\ nOpens < maxOpens
         /\ nAtt < maxAttempts
         /\ LET c == nOpens + 1
                a == nAtt + 1
            IN /\ nOpens' = c
               /\ structListeners' = structListeners + 1
               /\ client' = c
               /\ clientListening' = clientListening \cup {c}
               /\ state' = "CONNECTING"
               /\ authHandler' = a
               /\ errorHandler' = a
               /\ onceAuth' = onceAuth \cup {<<a, c>>}
               /\ onceDisc' = onceDisc \cup {<<a, c>>}
               /\ att' = [att EXCEPT ![a] = NewAttempt("open")]
               /\ nAtt' = a
               /\ last' = Outcome("open", state, connectCheck(c, "INITIALIZED"))
         /\ UNCHANGED <<structure, structureLoaded, reconnectAttempts, reconnectTimers,
                        eventListeners, isListening, closing, initialized, nShutdowns,
                        cmStructure, maps, snap, views, timeRequests, clock, sent, pendingCmds, retryRun>>

\* `await this.client.connect()` resolves: the timeout is armed and the race starts;
\* an authPromise settled meanwhile decides it at once
ClientConnectResolves(a) ==
  /\ att[a].pc = "clientConnect"
  /\ att' = [att EXCEPT ![a] =
               IF att[a].auth = "resolved" THEN [AfterAuth(att[a]) EXCEPT !.timer = "armed"]
               ELSE IF att[a].auth = "rejected" THEN [Settle(att[a]) EXCEPT !.timer = "armed"]
               ELSE [att[a] EXCEPT !.pc = "race", !.timer = "armed"]]
  /\ state' = IF att[a].auth = "resolved" THEN StateAfterAuth
              ELSE IF att[a].auth = "rejected" THEN connectCatch(state)
              ELSE state
  /\ last' = NoCall
  /\ UNCHANGED <<client, structure, structureLoaded, reconnectAttempts, authHandler,
                 errorHandler, clientListening, onceAuth, onceDisc,
                 nAtt, reconnectTimers, structListeners, eventListeners, isListening,
                 closing, initialized, nOpens, nShutdowns, cmStructure, maps, snap, views, timeRequests,
                 clock, sent, pendingCmds, retryRun>>

\* `await this.client.connect()` rejects: the catch sets ERROR; the handlers stay registered
ClientConnectRejects(a) ==
  /\ att[a].pc = "clientConnect"
  /\ att' = [att EXCEPT ![a] = Settle(att[a])]
  /\ state' = connectCatch(state)
  /\ last' = NoCall
  /\ UNCHANGED <<client, structure, structureLoaded, reconnectAttempts, authHandler,
                 errorHandler, clientListening, onceAuth, onceDisc,
                 nAtt, reconnectTimers, structListeners, eventListeners, isListening,
                 closing, initialized, nOpens, nShutdowns, cmStructure, maps, snap, views, timeRequests,
                 clock, sent, pendingCmds, retryRun>>

\* the setTimeout of lines 163-166 fires: cleanupAuthHandlers(), and the reject
\* fails the race if the call still waits in it
TimeoutFire(a) ==
  /\ att[a].timer = "armed"
  /\ authHandler' = CleanedField(authHandler)
  /\ errorHandler' = CleanedField(errorHandler)
  /\ onceAuth' = CleanedOnce(onceAuth, authHandler)
  /\ onceDisc' = CleanedOnce(onceDisc, errorHandler)
  /\ att' = [att EXCEPT ![a] =
               IF att[a].pc = "race" THEN [Settle(att[a]) EXCEPT !.timer = "none"]
               ELSE [att[a] EXCEPT !.timer = "none"]]
  /\ state' = IF att[a].pc = "race" THEN connectCatch(state) ELSE state
  /\ last' = Outcome("authTimeout", att[a].pc,
                     IF att[a].pc = "race" THEN "Authentication timeout" ELSE "none")
  /\ UNCHANGED <<client, structure, structureLoaded, reconnectAttempts, clientListening,
                 nAtt, reconnectTimers, structListeners, eventListeners,
                 isListening, closing, initialized, nOpens, nShutdowns, cmStructure,
                 maps, snap, views, timeRequests, clock, sent, pendingCmds, retryRun>>

\* `await this.client.enableUpdates()` resolves: loadStructure() starts retry(),
\* whose first call asks the client for the structure file; without a client
\* loadStructure() throws and the catch of connect() sets ERROR
EnableUpdatesResolves(a) ==
  /\ att[a].pc = "enableUpdates"
  /\ att' = [att EXCEPT ![a] =
               IF client # 0 THEN [att[a] EXCEPT !.pc = "getStructure", !.retryI = 0]
               ELSE Settle(att[a])]
  /\ state' = IF client # 0 THEN state ELSE connectCatch(state)
  /\ last' = IF client # 0 THEN NoCall
             ELSE Outcome("connectRejects", state, "Client not initialized")
  /\ UNCHANGED <<client, structure, structureLoaded, reconnectAttempts, authHandler,
                 errorHandler, clientListening, onceAuth, onceDisc,
                 nAtt, reconnectTimers, structListeners, eventListeners, isListening,
                 closing, initialized, nOpens, nShutdowns, cmStructure, maps, snap, views, timeRequests,
                 clock, sent, pendingCmds, retryRun>>

\* `await this.client.enableUpdates()` rejects: rethrown, the catch of connect() sets ERROR
EnableUpdatesRejects(a) ==
  /\ att[a].pc = "enableUpdates"
  /\ att' = [att EXCEPT ![a] = Settle(att[a])]
  /\ state' = connectCatch(state)
  /\ last' = Outcome("connectRejects", state, "enableUpdates failed")
  /\ UNCHANGED <<client, structure, structureLoaded, reconnectAttempts, authHandler,
                 errorHandler, clientListening, onceAuth, onceDisc,
                 nAtt, reconnectTimers, structListeners, eventListeners, isListening,
                 closing, initialized, nOpens, nShutdowns, cmStructure, maps, snap, views, timeRequests,
                 clock, sent, pendingCmds, retryRun>>

\* sendCommand() without the state guard of line 289
sendCommandCheck_NoStateGuard(c, st) ==
  IF c = 0 THEN "ConnectionManager not initialized" ELSE "ok"

\* the guards of sendCommand(), lines 288-289
sendCommandCheck(c, st) ==
  IF c = 0 THEN "ConnectionManager not initialized"
  ELSE IF st # "CONNECTED" THEN "Not connected to Loxone"
  ELSE "ok"

\* a Device Manager that keeps the first graph it was given
updateStructure_KeepsFirst(listeners, old, new) ==
  IF listeners > 0 /\ old = NoGraph THEN new ELSE old

\* the 'structureLoaded' listener of open(): ControlManager.updateStructure
updateStructure(listeners, old, new) == IF listeners > 0 THEN new ELSE old

\* the 'structureLoaded' listener of open(): TimeService.updateStructure asks for
\* the miniserver time when the file names its state-id and sendCommand() lets
\* the request through; the requests handed to client c
initializeMiniserverTime(listeners, g, c, st) ==
  LET \* structure.globalStates.miniserverTime: Null when the file has none
      miniserverTime == IF g = 2 THEN StateId1 ELSE Null
  IN IF listeners > 0 /\ miniserverTime # Null /\ sendCommandCheck(c, st) = "ok"
       THEN {<<c, miniserverTime>>}
       ELSE {}

\* client.getStructureFile() resolves with graph g: loadStructure() stores it,
\* emits 'structureLoaded' and sets the flag; connect() returns, and the open()
\* that awaited it sets initialized
GetStructureResolves(a, g) ==
  /\ att[a].pc = "getStructure"
  /\ structure' = g
  /\ cmStructure' = updateStructure(structListeners, cmStructure, g)
  /\ timeRequests' = timeRequests \cup initializeMiniserverTime(structListeners, g, client, state)
  /\ structureLoaded' = TRUE
  /\ initialized' = IF att[a].by = "open" THEN TRUE ELSE initialized
  /\ att' = [att EXCEPT ![a] = Settle(att[a])]
  /\ last' = Outcome("loadStructure", state, "loaded")
  /\ UNCHANGED <<state, client, reconnectAttempts, authHandler, errorHandler,
                 clientListening, onceAuth, onceDisc, nAtt,
                 reconnectTimers, structListeners, eventListeners, isListening,
                 closing, nOpens, nShutdowns, maps, snap, views, clock, sent, pendingCmds, retryRun>>

\* retry(): after failed call i (from 0) it sleeps unless that was the last one
retryGivesUp(i, maxRetries) == ~(i < maxRetries - 1)

\* a retry() whose sleep does not grow
retryDelay_Constant(baseDelay, i) == baseDelay

\* retry() line 32: baseDelay * Math.pow(2, i)
retryDelay(baseDelay, i) == baseDelay * 2^i

\* the head of the for loop of retry(): call fn once more, or leave the loop
\* and throw lastError
retryLoop(run) ==
  IF run.i < run.maxRetries
    THEN [run EXCEPT !.pc = "calling", !.calls = run.calls + 1]
    ELSE [run EXCEPT !.pc = "rejected", !.result = run.lastError]

\* retry(fn, maxRetries, baseDelay) is called: i = 0, lastError unassigned
RetryStart(maxRetries, baseDelay) ==
  /\ retryRun.pc = "idle"
  /\ retryRun' = retryLoop([retryRun EXCEPT !.maxRetries = maxRetries, !.baseDelay = baseDelay])
  /\ UNCHANGED <<connVars, eventListeners, isListening, cmStructure, maps, snap, views,
                 timeRequests, clock, sent, pendingCmds, last>>

\* fn() resolves: `return await fn()` ends retry() with that value
RetryFnResolves(value) ==
  /\ retryRun.pc = "calling"
  /\ retryRun' = [retryRun EXCEPT !.pc = "resolved", !.result = value,
                                   !.outcomes = Append(@, <<"resolved", value>>)]
  /\ UNCHANGED <<connVars, eventListeners, isListening, cmStructure, maps, snap, views,
                 timeRequests, clock, sent, pendingCmds, last>>

\* fn() rejects: lastError is kept; retry() sleeps unless this was the last
\* call, in which case i++ ends the loop at once
RetryFnRejects(error) ==
  /\ retryRun.pc = "calling"
  /\ LET run == [retryRun EXCEPT !.lastError = error,
                                  !.outcomes = Append(@, <<"rejected", error>>)]
     IN retryRun' =
          IF retryGivesUp(run.i, run.maxRetries)
            THEN retryLoop([run EXCEPT !.i = run.i + 1])
            ELSE [run EXCEPT !.pc = "waiting",
                             !.waits = Append(@, retryDelay(run.baseDelay, run.i))]
  /\ UNCHANGED <<connVars, eventListeners, isListening, cmStructure, maps, snap, views,
                 timeRequests, clock, sent, pendingCmds, last>>

\* the setTimeout of the sleep fires: i++ and the loop goes on
RetryDelayEnds ==
  /\ retryRun.pc = "waiting"
  /\ retryRun' = retryLoop([retryRun EXCEPT !.i = retryRun.i + 1])
  /\ UNCHANGED <<connVars, eventListeners, isListening, cmStructure, maps, snap, views,
                 timeRequests, clock, sent, pendingCmds, last>>

\* client.getStructureFile() rejects: retry() sleeps or gives up; giving up
\* rethrows through loadStructure() to the catch of connect()
GetStructureRejects(a) ==
  /\ att[a].pc = "getStructure"
  /\ LET giveUp == retryGivesUp(att[a].retryI, LoadStructureRetries)
     IN /\ att' = [att EXCEPT ![a] =
                     IF giveUp THEN Settle(att[a]) ELSE [att[a] EXCEPT !.pc = "backoff"]]
        /\ state' = IF giveUp THEN connectCatch(state) ELSE state
        /\ last' = IF giveUp THEN Outcome("connectRejects", state, "getStructureFile failed")
                   ELSE NoCall
  /\ UNCHANGED <<client, structure, structureLoaded, reconnectAttempts, authHandler,
                 errorHandler, clientListening, onceAuth, onceDisc,
                 nAtt, reconnectTimers, structListeners, eventListeners, isListening,
                 closing, initialized, nOpens, nShutdowns, cmStructure, maps, snap, views, timeRequests,
                 clock, sent, pendingCmds, retryRun>>

\* the backoff sleep of retry() ends and fn is called again: it asks the client,
\* or throws 'Client became null during retry', which counts as a failed call
BackoffEnds(a) ==
  /\ att[a].pc = "backoff"
  /\ LET i == att[a].retryI + 1
         giveUp == client = 0 /\ retryGivesUp(i, LoadStructureRetries)
     IN /\ att' = [att EXCEPT ![a] =
                     IF client # 0 THEN [att[a] EXCEPT !.pc = "getStructure", !.retryI = i]
                     ELSE IF giveUp THEN Settle(att[a])
                     ELSE [att[a] EXCEPT !.retryI = i]]
        /\ state' = IF giveUp THEN connectCatch(state) ELSE state
        /\ last' = IF giveUp THEN Outcome("connectRejects", state, "Client became null during retry")
                   ELSE NoCall
  /\ UNCHANGED <<client, structure, structureLoaded, reconnectAttempts, authHandler,
                 errorHandler, clientListening, onceAuth, onceDisc,
                 nAtt, reconnectTimers, structListeners, eventListeners, isListening,
                 closing, initialized, nOpens, nShutdowns, cmStructure, maps, snap, views, timeRequests,
                 clock, sent, pendingCmds, retryRun>>

\* a close() that forgets to reset the reconnect counter
closeReset_KeepsCounter(loaded, attempts) ==
  [state |-> "DISCONNECTED", structure |-> NoGraph, structureLoaded |-> FALSE,
   reconnectAttempts |-> attempts]

\* the assignments that end close(), lines 273-276
closeReset(loaded, attempts) ==
  [state |-> "DISCONNECTED", structure |-> NoGraph, structureLoaded |-> FALSE,
   reconnectAttempts |-> 0]

\* LoxoneSystem.shutdown(): eventHandlerService.cleanup(), stateManager.cleanup(),
\* then close(), which returns at once while DISCONNECTING, finishes at once
\* without a client, and otherwise waits for client.disconnect()
Shutdown(maxShutdowns) ==
  /\ nShutdowns < maxShutdowns
  /\ nShutdowns' = nShutdowns + 1
  /\ isListening' = FALSE
  /\ maps' = StateClear(maps)
  /\ IF state = "DISCONNECTING"
       THEN /\ eventListeners' = IF isListening THEN 0 ELSE eventListeners
            /\ initialized' = FALSE
            /\ last' = Outcome("close", state, "Already disconnecting")
            /\ UNCHANGED <<state, client, structure, structureLoaded, reconnectAttempts,
                           authHandler, errorHandler, clientListening, onceAuth,
                           onceDisc, structListeners, closing>>
       ELSE /\ authHandler' = CleanedField(authHandler)
            /\ errorHandler' = CleanedField(errorHandler)
            /\ structListeners' = 0
            /\ eventListeners' = 0
            /\ clientListening' = clientListening \ {client}
            /\ onceAuth' = {h \in onceAuth : h[2] # client}
            /\ onceDisc' = {h \in onceDisc : h[2] # client}
            /\ IF client # 0
                 THEN /\ state' = "DISCONNECTING"
                      /\ closing' = closing + 1
                      /\ last' = Outcome("close", state, "pending")
                      /\ UNCHANGED <<client, structure, structureLoaded,
                                     reconnectAttempts, initialized>>
                 ELSE /\ state' = closeReset(structureLoaded, reconnectAttempts).state
                      /\ structure' = closeReset(structureLoaded, reconnectAttempts).structure
                      /\ structureLoaded' = closeReset(structureLoaded, reconnectAttempts).structureLoaded
                      /\ reconnectAttempts' = closeReset(structureLoaded, reconnectAttempts).reconnectAttempts
                      /\ initialized' = FALSE
                      /\ last' = Outcome("close", state, "closed")
                      /\ UNCHANGED <<client, closing>>
  /\ UNCHANGED <<att, nAtt, reconnectTimers, nOpens, cmStructure,
                 snap, views, timeRequests, clock, sent, pendingCmds, retryRun>>

\* client.disconnect() resolves: close() releases the client and resets the
\* session; shutdown() then clears initialized
DisconnectResolves ==
  /\ closing > 0
  /\ closing' = closing - 1
  /\ client' = 0
  /\ state' = closeReset(structureLoaded, reconnectAttempts).state
  /\ structure' = closeReset(structureLoaded, reconnectAttempts).structure
  /\ structureLoaded' = closeReset(structureLoaded, reconnectAttempts).structureLoaded
  /\ reconnectAttempts' = closeReset(structureLoaded, reconnectAttempts).reconnectAttempts
  /\ initialized' = FALSE
  /\ last' = Outcome("close", state, "closed")
  /\ UNCHANGED <<authHandler, errorHandler, clientListening, onceAuth,
                 onceDisc, att, nAtt, reconnectTimers, structListeners, eventListeners,
                 isListening, nOpens, nShutdowns, cmStructure, maps, snap, views, timeRequests, clock,
                 sent, pendingCmds, retryRun>>

\* ConnectionManager.sendCommand(command), called by a collaborator service
SendCommand(command) ==
  /\ LET check == sendCommandCheck(client, state)
     IN IF check = "ok"
          THEN /\ Len(sent) < MaxSends
               /\ sent' = Append(sent, command)
               /\ last' = [Outcome("sendCommand", state, "pending")
                             EXCEPT !.handed = TRUE, !.text = command]
          ELSE /\ sent' = sent
               /\ last' = [Outcome("sendCommand", state, check) EXCEPT !.text = command]
  /\ UNCHANGED <<connVars, eventListeners, isListening, cmStructure, maps, snap, views, timeRequests,
                 clock, pendingCmds, retryRun>>

\* setControl() without the isConnected() guard of lines 98-100
setControlCheck_NoConnectionCheck(connected, graph, uuid) ==
  IF graph = NoGraph THEN "Connecting to Smart Home. Try again later."
  ELSE IF Controls(graph)[uuid] = NoControl THEN "Control not found"
  ELSE "ok"

\* the guards of setControl(), lines 98-107
setControlCheck(connected, graph, uuid) ==
  IF ~connected THEN "Not connected to Loxone"
  ELSE IF graph = NoGraph THEN "Connecting to Smart Home. Try again later."
  ELSE IF Controls(graph)[uuid] = NoControl THEN "Control not found"
  ELSE "ok"

\* a catch block that throws a new error around the one it caught
setControlCatch_Wraps(error) == <<"Command failed: ">> \o error

\* the catch block of setControl(): logs and rethrows what it caught
setControlCatch(error) == error

\* ControlManager.setControl(uuid, command, value) up to its await
SetControl(uuid, command, value) ==
  /\ LET check == setControlCheck(isConnected, cmStructure, uuid)
         cmd == buildControlCommand(uuid, Controls(cmStructure)[uuid], command, value)
         send == sendCommandCheck(client, state)
         call == [Outcome("setControl", state, "none")
                    EXCEPT !.uuid = uuid, !.command = command, !.value = value]
     IN IF check # "ok"
          THEN /\ last' = [call EXCEPT !.res = check]
               /\ UNCHANGED <<sent, pendingCmds>>
          ELSE IF ~cmd.ok
            THEN /\ last' = [call EXCEPT !.res = "raised", !.builds = 1,
                                           !.text = setControlCatch(cmd.text)]
                 /\ UNCHANGED <<sent, pendingCmds>>
            ELSE IF send # "ok"
              THEN /\ last' = [call EXCEPT !.res = "rejected", !.builds = 1,
                                             !.text = setControlCatch(<<send>>)]
                   /\ UNCHANGED <<sent, pendingCmds>>
              ELSE /\ Len(sent) < MaxSends
                   /\ sent' = Append(sent, cmd.text)
                   /\ pendingCmds' = pendingCmds + 1
                   /\ last' = [call EXCEPT !.res = "pending", !.builds = 1,
                                             !.handed = TRUE, !.text = cmd.text]
  /\ UNCHANGED <<connVars, eventListeners, isListening, cmStructure, maps, snap, views, timeRequests, clock,
                 retryRun>>

\* the response arrives: setControl() returns response.code === 200
SetControlResponse(code) ==
  /\ pendingCmds > 0
  /\ pendingCmds' = pendingCmds - 1
  /\ last' = Outcome("setControlResponse", state, IF code = 200 THEN "true" ELSE "false")
  /\ UNCHANGED <<connVars, eventListeners, isListening, cmStructure, maps, snap, views, timeRequests,
                 clock, sent, retryRun>>

\* ============================================================ Event Router
\* an Event Router that files an event it cannot decode under the first state-id
processEvent_StoresUndecoded(ms, buffer, payload, now) ==
  IF payload # Undefined
    THEN updateValue(ms, IF bufferToUuid(buffer) # Null THEN bufferToUuid(buffer) ELSE StateId1,
                     payload, now)
    ELSE ms

\* processEvent / processTextEvent: decode the id, store a present payload
processEvent(ms, buffer, payload, now) ==
  IF bufferToUuid(buffer) # Null /\ payload # Undefined
    THEN updateValue(ms, bufferToUuid(buffer), payload, now)
    ELSE ms


\* an event_value forwarding that reaches the Event Router whether or not it is subscribed
ClientValueEvent_AlwaysDelivers(g, buffer, value) ==
  /\ g \in clientListening
  /\ maps' = processEvent(maps, buffer, value, clock)
  /\ last' = [Outcome("event_value", state, "none")
                EXCEPT !.uuid = bufferToUuid(buffer), !.payload = value]
  /\ UNCHANGED <<connVars, eventListeners, isListening, cmStructure, snap, views, timeRequests, clock,
                 sent, pendingCmds, retryRun>>

\* the client emits event_value; the session forwards it to its listeners
ClientValueEvent(g, buffer, value) ==
  /\ g \in clientListening
  /\ maps' = IF eventListeners > 0 THEN processEvent(maps, buffer, value, clock) ELSE maps
  /\ last' = [Outcome("event_value", state, "none")
                EXCEPT !.uuid = bufferToUuid(buffer), !.payload = value]
  /\ UNCHANGED <<connVars, eventListeners, isListening, cmStructure, snap, views, timeRequests, clock,
                 sent, pendingCmds, retryRun>>

\* the client emits event_text
ClientTextEvent(g, buffer, text) ==
  /\ g \in clientListening
  /\ maps' = IF eventListeners > 0 THEN processEvent(maps, buffer, text, clock) ELSE maps
  /\ last' = [Outcome("event_text", state, "none")
                EXCEPT !.uuid = bufferToUuid(buffer), !.payload = text]
  /\ UNCHANGED <<connVars, eventListeners, isListening, cmStructure, snap, views, timeRequests, clock,
                 sent, pendingCmds, retryRun>>

\* time passes
Tick ==
  /\ clock < MaxClock
  /\ clock' = clock + 1
  /\ last' = NoCall
  /\ UNCHANGED <<connVars, eventListeners, isListening, cmStructure, maps, snap, views, timeRequests,
                 sent, pendingCmds, retryRun>>

\* ============================================================ Time Service

\* the client answers a miniserver-time request: initializeMiniserverTime()
\* resumes and stores a truthy value (`if (response?.LL?.value)`) with
\* StateManager.set
TimeResponse(c, uuid, value) ==
  /\ <<c, uuid>> \in timeRequests
  /\ timeRequests' = timeRequests \ {<<c, uuid>>}
  /\ maps' = IF value \notin {Undefined, JsNull, <<"number", 0>>} THEN StateSet(maps, uuid, NewState(uuid, value, clock)) ELSE maps
  /\ last' = [Outcome("timeResponse", state, "none") EXCEPT !.uuid = uuid, !.payload = value]
  /\ UNCHANGED <<connVars, eventListeners, isListening, cmStructure, snap, views, clock,
                 sent, pendingCmds, retryRun>>

\* ================================================================ State Cache API
\* the StateValue objects a caller may pass to set()
CallerStates == {NewState(u, v, t) : u \in StateIds, v \in Payloads \ {<<"number", 0>>}, t \in {0}}

\* StateManager.set(uuid, value)
CacheSet(uuid, sv) ==
  /\ maps' = StateSet(maps, uuid, sv)
  /\ last' = [Outcome("set", "none", "none") EXCEPT !.uuid = uuid, !.payload = sv.value]
  /\ UNCHANGED <<connVars, eventListeners, isListening, cmStructure, snap, views, timeRequests, clock,
                 sent, pendingCmds, retryRun>>

\* StateManager.updateValue(uuid, value)
CacheUpdateValue(uuid, value) ==
  /\ maps' = updateValue(maps, uuid, value, clock)
  /\ last' = [Outcome("updateValue", "none", "none") EXCEPT !.uuid = uuid, !.payload = value]
  /\ UNCHANGED <<connVars, eventListeners, isListening, cmStructure, snap, views, timeRequests, clock,
                 sent, pendingCmds, retryRun>>

\* StateManager.delete(uuid): whether the entry existed
CacheDelete(uuid) ==
  /\ maps' = [maps EXCEPT ![LiveMap] = MapDelete(maps[LiveMap], uuid)]
  /\ last' = [Outcome("delete", "none", IF StateHas(uuid) THEN "true" ELSE "false")
                EXCEPT !.uuid = uuid]
  /\ UNCHANGED <<connVars, eventListeners, isListening, cmStructure, snap, views, timeRequests, clock,
                 sent, pendingCmds, retryRun>>

\* StateManager.clear()
CacheClear ==
  /\ maps' = StateClear(maps)
  /\ last' = Outcome("clear", "none", "none")
  /\ UNCHANGED <<connVars, eventListeners, isListening, cmStructure, snap, views, timeRequests, clock,
                 sent, pendingCmds, retryRun>>

\* StateManager.getAll(): the caller keeps the Map it returns
CacheGetAll ==
  /\ Cardinality(snap) < MaxSnapshots
  /\ maps' = getAll(maps, Cardinality(snap) + 1)
  /\ snap' = snap \cup {getAllTarget(Cardinality(snap) + 1)}
  /\ last' = Outcome("getAll", "none", "none")
  /\ UNCHANGED <<connVars, eventListeners, isListening, cmStructure, views, timeRequests, clock,
                 sent, pendingCmds, retryRun>>

\* the caller adds or replaces an entry of the Map it holds
SnapshotSet(m, uuid, sv) ==
  /\ m \in snap
  /\ maps' = [maps EXCEPT ![m] = MapSet(maps[m], uuid, sv)]
  /\ last' = [Outcome("snapshot", "none", "set") EXCEPT !.uuid = uuid, !.payload = sv.value]
  /\ UNCHANGED <<connVars, eventListeners, isListening, cmStructure, snap, views, timeRequests, clock,
                 sent, pendingCmds, retryRun>>

\* the caller deletes an entry of the Map it holds
SnapshotDelete(m, uuid) ==
  /\ m \in snap
  /\ maps' = [maps EXCEPT ![m] = MapDelete(maps[m], uuid)]
  /\ last' = [Outcome("snapshot", "none", "delete") EXCEPT !.uuid = uuid]
  /\ UNCHANGED <<connVars, eventListeners, isListening, cmStructure, snap, views, timeRequests, clock,
                 sent, pendingCmds, retryRun>>

\* ================================================= Device Manager queries

\* `if (roomUuid && ...)`: a filter applies when it is truthy
FilterGiven(filter) == filter \notin {undefined, Null, ""}

\* a getControls() that returns a control matching either filter
filteredOut_Either(control, roomUuid, categoryUuid) ==
  /\ FilterGiven(roomUuid) /\ control.room # roomUuid
  /\ FilterGiven(categoryUuid) /\ control.cat # categoryUuid

\* the two `continue` statements of getControls(), lines 71-72
filteredOut(control, roomUuid, categoryUuid) ==
  \/ FilterGiven(roomUuid) /\ control.room # roomUuid
  \/ FilterGiven(categoryUuid) /\ control.cat # categoryUuid

\* the device ids of the views getControls(roomUuid, categoryUuid) returns; the
\* `continue` of line 65 skips what is no supported control
getControls(graph, roomUuid, categoryUuid) ==
  IF graph = NoGraph
    THEN {}
    ELSE {d \in DeviceIds :
            /\ Controls(graph)[d] # NoControl
            /\ isLoxoneControl(Controls(graph)[d]) /\ isSupported(Controls(graph)[d])
            /\ ~filteredOut(Controls(graph)[d], roomUuid, categoryUuid)}

\* a getControl() that builds a view of whatever is stored under the id
getControlCheck_AnyEntry(graph, uuid) ==
  IF graph = NoGraph THEN "Connecting to Smart Home. Try again later."
  ELSE IF Controls(graph)[uuid] = NoControl THEN "Control not found"
  ELSE "ok"

\* the errors of getControl(), lines 86-92, and of createControl(), lines 128-133
getControlCheck(graph, uuid) ==
  IF graph = NoGraph THEN "Connecting to Smart Home. Try again later."
  ELSE IF Controls(graph)[uuid] = NoControl THEN "Control not found"
  ELSE IF ~isLoxoneControl(Controls(graph)[uuid]) THEN "Unsupported control type"
  ELSE "ok"

\* the Map objects no view and no caller holds
FreeMaps == (MapIds \ {LiveMap}) \ ({v.map : v \in views} \cup snap)

\* a view that reads the State Cache itself
stateCacheOf_Live(v) == LiveMap

\* AbstractControlType.stateCache: the Map the view was constructed with
stateCacheOf(v) == v.map

\* AbstractControlType.states: the value of the view's state, read from its Map
states(ms, v) ==
  IF v.control.state = Null \/ ~MapHas(ms[stateCacheOf(v)], v.control.state)
       \/ ms[stateCacheOf(v)][v.control.state].value = Undefined
    THEN JsNull
    ELSE ms[stateCacheOf(v)][v.control.state].value

\* createControl(): ControlTypeFactory.create with the Map getAll() returned
createControl(uuid, control, fresh) ==
  [uuid |-> uuid, control |-> control, kind |-> create(control), map |-> getAllTarget(fresh)]

\* ControlManager.getControl(uuid): the caller keeps the view it returns
GetControl(uuid) ==
  /\ LET check == getControlCheck(cmStructure, uuid)
         call == [Outcome("getControl", state, check) EXCEPT !.uuid = uuid]
         fresh == CHOOSE m \in FreeMaps : \A n \in FreeMaps : m <= n
     IN IF check = "ok"
          THEN /\ FreeMaps # {}
               /\ maps' = getAll(maps, fresh)
               /\ views' = views \cup {createControl(uuid, Controls(cmStructure)[uuid], fresh)}
               /\ last' = [call EXCEPT !.result = {uuid}]
          ELSE /\ last' = call
               /\ UNCHANGED <<maps, views>>
  /\ UNCHANGED <<connVars, eventListeners, isListening, cmStructure, snap, timeRequests,
                 clock, sent, pendingCmds, retryRun>>

\* ControlManager.getControls(roomUuid, categoryUuid): one view, with a Map of
\* its own, for every control that is neither skipped nor filtered out
GetControls(roomUuid, categoryUuid) ==
  /\ LET R == getControls(cmStructure, roomUuid, categoryUuid)
     IN /\ Cardinality(R) <= Cardinality(FreeMaps)
        /\ LET fresh == CHOOSE f \in [R -> FreeMaps] : \A d, e \in R : f[d] = f[e] => d = e
           IN /\ maps' = [m \in MapIds |->
                            IF \E d \in R : getAllTarget(fresh[d]) = m /\ m # LiveMap
                              THEN maps[LiveMap] ELSE maps[m]]
              /\ views' = views \cup {createControl(d, Controls(cmStructure)[d], fresh[d]) : d \in R}
        /\ last' = [Outcome("getControls", state, "ok")
                      EXCEPT !.room = roomUuid, !.cat = categoryUuid, !.result = R]
  /\ UNCHANGED <<connVars, eventListeners, isListening, cmStructure, snap, timeRequests,
                 clock, sent, pendingCmds, retryRun>>

\* ========================================================= state rendering
\* shouldFilterState(state, ignoredStates, importantStates) of the class
\* create() chose, for the classes that return true and the classes that keep
\* the one of AbstractControlType; includes() on the lower-cased name is
\* tabulated for the state names of InitRender
shouldFilterState(kind, name, value) ==
  LET isImportant == name \in {"active", "errorState"}
      isIgnored   == name \in {"jLocked", "errorState"}
      isConfig    == name \in {"armThreshold"}
  IN IF kind \in {"CentralAudioZone", "CentralGate", "CentralJalousie", "CentralWindow"}
       THEN TRUE
       ELSE \/ ~isImportant /\ value \in {JsNull, Undefined, <<"empty", 0>>}
            \/ ~isImportant /\ isIgnored
            \/ ~isImportant /\ isConfig

\* AbstractControlType.formattedStates: <<name, value>> of the states the
\* filter lets through
formattedStates(ms, v) ==
  IF v.control.state = Null \/ shouldFilterState(v.kind, v.control.details.stateName, states(ms, v))
    THEN {}
    ELSE {<<v.control.details.stateName, states(ms, v)>>}

\* controlInstance.formattedStates, read once on the instance
FormattedStates ==
  /\ last.op = "none"
  /\ \E v \in views :
       last' = [Outcome("formattedStates", "none", "ok")
                  EXCEPT !.uuid = v.uuid, !.result = formattedStates(maps, v)]
  /\ UNCHANGED <<connVars, eventListeners, isListening, cmStructure, maps, snap, views,
                 timeRequests, clock, sent, pendingCmds, retryRun>>

\* ======================================================= command builders
\* the descriptors a control instance is constructed from: every tag of the
\* registry, the aliases, a tag without implementation, a tag outside the enum,
\* the empty tag and a descriptor without tag
BuildControls ==
  LET BuildTags == RegisteredKinds \cup DOMAIN typeAliases \cup {"Daytimer", "Bogus", "", Null}
      DetailsOf(tag) ==
        CASE tag = "LightControllerV2" ->
               {NoDetails, [NoDetails EXCEPT !.masterColor = "CP1"],
                [NoDetails EXCEPT !.subControls = {<<"SUB1", "ColorPickerV2">>}],
                [NoDetails EXCEPT !.subControls = {<<"SUB1", "ColorPicker">>}]}
          [] tag = "Radio" -> {NoDetails, [NoDetails EXCEPT !.outputs = {1, 2}]}
          [] tag \in {"IRoomControllerV2", "IRoomController"} ->
               {NoDetails, [NoDetails EXCEPT !.timerModes = {"1"}]}
          [] OTHER -> {NoDetails}
  IN UNION {{[Control(tag, "R1", "C1", "D1", Null) EXCEPT !.details = details] :
               details \in DetailsOf(tag)} : tag \in BuildTags}

\* the commands and values a caller passes to buildControlCommand()
BuildCommands ==
  {"not-a-real-command", "on", "off", "setValue", "hsv", "temp", "setBrightness",
   "daylight", "lumitech", "setScene", "plus", "minus", "learnScene", "up", "down",
   "stop", "setPosition", "open", "close", "arm", "disarm", "acknowledge", "quit",
   "delayedOn", "pulse", "select/1", "select/2", "reset", "1", "setTemperature",
   "setMode", "play", "pause", "next", "previous", "prev", "volumeUp", "volumeDown",
   "volUp", "volDown", "setVolume", "volume", "mute", "fullUp", "fullDown", "toggle",
   "fullOpen", "fullClose", "moveToPosition", "fan-on", "fan-off"}
BuildValues == {undefined, "0", "40", "75", "1", "0,100,100", "(0,100,100)", "on"}

\* the state after ControlTypeFactory.create(uuid, control, structure, new Map())
\* for one descriptor: a control instance exists, nothing else has happened
InitBuild ==
  /\ state = "UNINITIALIZED"
  /\ client = 0
  /\ structure = NoGraph
  /\ structureLoaded = FALSE
  /\ reconnectAttempts = 0
  /\ authHandler = 0
  /\ errorHandler = 0
  /\ clientListening = {}
  /\ onceAuth = {}
  /\ onceDisc = {}
  /\ att = [a \in Attempts |-> NoAttempt]
  /\ nAtt = 0
  /\ reconnectTimers = 0
  /\ structListeners = 0
  /\ eventListeners = 1
  /\ isListening = TRUE
  /\ closing = 0
  /\ initialized = FALSE
  /\ nOpens = 0
  /\ nShutdowns = 0
  /\ cmStructure = NoGraph
  /\ maps = [m \in MapIds |-> EmptyMap]
  /\ snap = {}
  /\ \E control \in BuildControls : views = {createControl("D1", control, 1)}
  /\ timeRequests = {}
  /\ clock = 0
  /\ sent = <<>>
  /\ pendingCmds = 0
  /\ retryRun = NoRetry
  /\ last = NoCall

\* the state after ControlTypeFactory.create(uuid, control, structure, stateCache)
\* for a descriptor with one state or none and a Map that holds a value or not
InitRender ==
  /\ state = "UNINITIALIZED"
  /\ client = 0
  /\ structure = NoGraph
  /\ structureLoaded = FALSE
  /\ reconnectAttempts = 0
  /\ authHandler = 0
  /\ errorHandler = 0
  /\ clientListening = {}
  /\ onceAuth = {}
  /\ onceDisc = {}
  /\ att = [a \in Attempts |-> NoAttempt]
  /\ nAtt = 0
  /\ reconnectTimers = 0
  /\ structListeners = 0
  /\ eventListeners = 1
  /\ isListening = TRUE
  /\ closing = 0
  /\ initialized = FALSE
  /\ nOpens = 0
  /\ nShutdowns = 0
  /\ cmStructure = NoGraph
  /\ \E value \in Payloads \cup {Undefined, JsNull, <<"empty", 0>>} :
       maps = [m \in MapIds |->
                 IF m = 1 /\ value # Undefined
                   THEN MapSet(EmptyMap, StateId1, NewState(StateId1, value, 0))
                   ELSE EmptyMap]
  /\ snap = {}
  /\ \E tag \in {"CentralAlarm", "CentralAudioZone", "CentralGate", "CentralJalousie",
                 "CentralWindow", "Switch"} :
       \E name \in {"armed", "active", "jLocked", "errorState", "armThreshold"} :
         \E stateUuid \in {Null, StateId1} :
           views = {createControl("D1", [Control(tag, "R1", "C1", "D1", stateUuid)
                                           EXCEPT !.details.stateName = name], 1)}
  /\ timeRequests = {}
  /\ clock = 0
  /\ sent = <<>>
  /\ pendingCmds = 0
  /\ retryRun = NoRetry
  /\ last = NoCall

\* controlInstance.buildControlCommand(command, value), called once on the instance
BuildControlCommand(command, value) ==
  /\ last.op = "none"
  /\ \E v \in views :
       LET cmd == buildControlCommand(v.uuid, v.control, command, value)
       IN last' = [Outcome("buildControlCommand", "none", IF cmd.ok THEN "ok" ELSE "raised")
                     EXCEPT !.uuid = v.uuid, !.command = command, !.value = value,
                            !.text = cmd.text]
  /\ UNCHANGED <<connVars, eventListeners, isListening, cmStructure, maps, snap, views,
                 timeRequests, clock, sent, pendingCmds, retryRun>>

\* ================================================================ specifications
\* The session: the lifecycle of the Connection Session under every behaviour of the client.
Next ==
  \/ Open(MaxOpens, MaxAttempts)
  \/ Shutdown(MaxShutdowns)
  \/ DisconnectResolves
  \/ ReconnectTimerFire(MaxAttempts)
  \/ \E a \in Attempts :
       \/ ClientConnectResolves(a)
       \/ ClientConnectRejects(a)
       \/ TimeoutFire(a)
       \/ EnableUpdatesResolves(a)
       \/ EnableUpdatesRejects(a)
       \/ \E g \in Graphs : GetStructureResolves(a, g)
       \/ GetStructureRejects(a)
       \/ BackoffEnds(a)
  \/ \E g \in Clients : ClientConnected(g)
  \/ \E g \in Clients : ClientDisconnected(g)
  \/ \E g \in Clients : ClientAuthenticated(g)
  \/ SendCommand(<<"jdev/cfg/time">>)

Spec == Init /\ [][Next]_vars

\* Reconnection: a client that connects and disconnects but never authenticates.
NextReconnect ==
  \/ Open(MaxReconnectOpens, MaxReconnectAttempts)
  \/ ReconnectTimerFire(MaxReconnectAttempts)
  \/ \E a \in Attempts :
       \/ ClientConnectResolves(a)
       \/ ClientConnectRejects(a)
       \/ TimeoutFire(a)
  \/ \E g \in Clients : ClientConnected(g)
  \/ \E g \in Clients : ClientDisconnected(g)

SpecReconnect == Init /\ [][NextReconnect]_vars

\* Commands: the Device Manager's setControl over a session that connects, loads
\* a graph, loses the connection and is shut down; reconnection is left to the
\* session and reconnection specifications.
NextCommands ==
  \/ Open(MaxCommandOpens, MaxCommandAttempts)
  \/ Shutdown(MaxCommandShutdowns)
  \/ DisconnectResolves
  \/ \E a \in Attempts :
       \/ ClientConnectResolves(a)
       \/ TimeoutFire(a)
       \/ EnableUpdatesResolves(a)
       \/ \E g \in Graphs : GetStructureResolves(a, g)
  \/ \E g \in Clients : ClientConnected(g)
  \/ \E g \in Clients : ClientDisconnected(g)
  \/ \E g \in Clients : ClientAuthenticated(g)
  \/ \E d \in DeviceIds : \E c \in {"on", "setValue", "bogus"} : \E v \in {undefined, "75"} :
       SetControl(d, c, v)
  \/ \E code \in {200, 404} : SetControlResponse(code)

SpecCommands == Init /\ [][NextCommands]_vars

\* Events: push events over a system that is opened, shut down and opened again.
NextEvents ==
  \/ Open(MaxSystemOpens, MaxSystemAttempts)
  \/ Shutdown(MaxSystemShutdowns)
  \/ DisconnectResolves
  \/ \E a \in Attempts :
       \/ ClientConnectResolves(a)
       \/ TimeoutFire(a)
       \/ EnableUpdatesResolves(a)
       \/ \E g \in Graphs : GetStructureResolves(a, g)
  \/ \E g \in Clients : ClientConnected(g)
  \/ \E g \in Clients : ClientAuthenticated(g)
  \/ \E g \in Clients : \E b \in Buffers : \E v \in {Undefined, <<"number", 1>>} : ClientValueEvent(g, b, v)
  \/ \E g \in Clients : \E b \in Buffers : \E t \in {Undefined, <<"string", 0>>} : ClientTextEvent(g, b, t)
  \/ \E g \in Clients : \E u \in StateIds : \E v \in {Undefined, <<"number", 0>>, <<"string", 0>>} : TimeResponse(g, u, v)

SpecEvents == Init /\ [][NextEvents]_vars

\* Event Router: push events over a session that loses the connection and
\* reconnects, and is shut down in between.
NextRouter ==
  \/ Open(MaxRouterOpens, MaxRouterAttempts)
  \/ Shutdown(MaxRouterShutdowns)
  \/ DisconnectResolves
  \/ ReconnectTimerFire(MaxRouterAttempts)
  \/ \E a \in Attempts : ClientConnectResolves(a)
  \/ \E g \in Clients : ClientDisconnected(g)
  \/ \E g \in Clients : ClientAuthenticated(g)
  \/ \E g \in Clients : \E b \in Buffers : \E v \in {Undefined, <<"number", 1>>} : ClientValueEvent(g, b, v)
  \/ \E g \in Clients : \E b \in Buffers : \E t \in {Undefined, <<"string", 0>>} : ClientTextEvent(g, b, t)

SpecRouter == Init /\ [][NextRouter]_vars

\* Queries: getControl and getControls between the push events of a session that
\* connects, loads a graph, loses the connection and is shut down.
NextQueries ==
  \/ Open(MaxQueryOpens, MaxQueryAttempts)
  \/ Shutdown(MaxQueryShutdowns)
  \/ DisconnectResolves
  \/ \E a \in Attempts :
       \/ ClientConnectResolves(a)
       \/ EnableUpdatesResolves(a)
       \/ \E g \in Graphs : GetStructureResolves(a, g)
  \/ \E g \in Clients : ClientAuthenticated(g)
  \/ \E g \in Clients : \E b \in Buffers : \E v \in {Undefined, <<"number", 1>>} : ClientValueEvent(g, b, v)
  \/ \E g \in Clients : \E u \in StateIds : \E v \in {Undefined, <<"number", 0>>, <<"string", 0>>} : TimeResponse(g, u, v)
  \/ \E d \in DeviceIds : GetControl(d)
  \/ \E r \in {undefined, Null, "R1", "R2"} : \E c \in {undefined, Null, "C1", "C2"} :
       GetControls(r, c)

SpecQueries == Init /\ [][NextQueries]_vars

\* retry(): one call with every retry count and base delay, over every sequence
\* of outcomes of fn.
NextRetry ==
  \/ \E n \in 0 .. MaxRetries : \E d \in {LoadStructureBaseDelay, RetryOtherDelay} : RetryStart(n, d)
  \/ \E value \in {"V1", "V2"} : RetryFnResolves(value)
  \/ \E error \in {"E1", "E2"} : RetryFnRejects(error)
  \/ RetryDelayEnds

SpecRetry == Init /\ [][NextRetry]_vars

\* Outage: queries and commands on a session that has loaded a graph, has
\* received push events and then loses the connection.
NextOutage ==
  \/ Open(MaxOutageOpens, MaxOutageAttempts)
  \/ \E a \in Attempts :
       \/ ClientConnectResolves(a)
       \/ EnableUpdatesResolves(a)
       \/ \E g \in Graphs : GetStructureResolves(a, g)
  \/ \E g \in Clients : ClientAuthenticated(g)
  \/ \E g \in Clients : ClientDisconnected(g)
  \/ \E g \in Clients : \E b \in Buffers : \E v \in {Undefined, <<"number", 1>>} : ClientValueEvent(g, b, v)
  \/ \E d \in DeviceIds : GetControl(d)
  \/ GetControls(undefined, undefined)
  \/ \E d \in DeviceIds : SetControl(d, "on", undefined)

SpecOutage == Init /\ [][NextOutage]_vars

\* Initialization: initialize() called with every configuration, again and again.
\* The configurations: each field absent or given; an empty password; the
\* protocols the code names and one it does not.
NextInitialize ==
  \E config \in [host : {undefined, "miniserver"}, username : {undefined, "user"},
                 password : {undefined, "", "secret"},
                 protocol : {undefined, "http", "https", "ftp"},
                 wsProtocol : {undefined, "ws", "wss", "tcp"}] :
    Initialize(config)

SpecInitialize == Init /\ [][NextInitialize]_vars

\* The command builders: every command and value on an instance of every kind.
NextBuild == \E c \in BuildCommands : \E v \in BuildValues : BuildControlCommand(c, v)

SpecBuild == InitBuild /\ [][NextBuild]_vars

\* Rendering: formattedStates of one control instance.
NextRender == FormattedStates

SpecRender == InitRender /\ [][NextRender]_vars

\* The State Cache on its own: any sequence of calls of its API.
NextCache ==
  \/ \E u \in StateIds : \E sv \in CallerStates : CacheSet(u, sv)
  \/ \E u \in StateIds : \E v \in Payloads : CacheUpdateValue(u, v)
  \/ \E u \in StateIds : CacheDelete(u)
  \/ CacheClear
  \/ CacheGetAll
  \/ \E m \in MapIds : \E u \in StateIds : \E sv \in CallerStates : SnapshotSet(m, u, sv)
  \/ \E m \in MapIds : \E u \in StateIds : SnapshotDelete(m, u)
  \/ Tick

SpecCache == Init /\ [][NextCache]_vars

\* ==================================================================== claims
\* ---- C1: sendCommand(text) called while the state is not CONNECTED fails with
\* the not-connected (or not-initialized) error and hands nothing to the
\* external client; a text reaches the external client only in a step taken
\* while the state is CONNECTED.
C1_SendOnlyWhenConnected ==
  [][/\ (last'.op = "sendCommand" /\ state # "CONNECTED")
          => /\ last'.res \in {"Not connected to Loxone", "ConnectionManager not initialized"}
             /\ ~last'.handed
             /\ sent' = sent
     /\ (sent' # sent) => (state = "CONNECTED" /\ client # 0 /\ last'.handed)]_vars

\* a call accepted while CONNECTED, and a later call refused in ERROR
C1_Witness ==
  /\ last.op = "sendCommand"
  /\ last.pre = "ERROR"
  /\ last.res = "Not connected to Loxone"
  /\ Len(sent) = 1

\* ---- C2: a connect() call that still waits for the authenticated notification
\* when its authentication timeout fires rejects with the authentication-timeout
\* error, and the state is ERROR when it rejects.
C2_AuthTimeoutRejects ==
  [][\A a \in Attempts :
       (att[a].pc = "race" /\ att[a].timer = "armed" /\ att'[a].timer = "none")
         => /\ att'[a].pc = "done"
            /\ last'.op = "authTimeout"
            /\ last'.res = "Authentication timeout"
            /\ state' = "ERROR"]_vars

\* the timeout of a waiting call has fired
C2_Witness ==
  /\ last.op = "authTimeout"
  /\ last.pre = "race"
  /\ last.res = "Authentication timeout"
  /\ state = "ERROR"

C4_ConnectGuarded ==
  [][(last'.op = "connect" /\ state \in {"CONNECTED", "CONNECTING"})
       => /\ last'.res \in {"Already connected", "Connection already in progress"}
          /\ (state = "CONNECTED") <=> (last'.res = "Already connected")
          /\ UNCHANGED <<state, client, authHandler, errorHandler, onceAuth, onceDisc,
                         att, nAtt, clientListening, reconnectAttempts>>]_vars

\* a reconnect timer called connect() while another attempt was in progress
C4_Witness ==
  /\ last.op = "connect"
  /\ last.pre = "CONNECTING"
  /\ last.res = "Connection already in progress"
  /\ state = "CONNECTING"

\* the session as close() leaves it, lines 270-276
ClosedSession ==
  /\ state = "DISCONNECTED"
  /\ client = 0
  /\ structure = NoGraph
  /\ ~structureLoaded
  /\ reconnectAttempts = 0

C6_SetControlFailsFast ==
  [][(last'.op = "setControl" /\ (~isConnected \/ cmStructure = NoGraph))
       => /\ last'.res = IF ~isConnected THEN "Not connected to Loxone"
                         ELSE "Connecting to Smart Home. Try again later."
          /\ last'.builds = 0
          /\ ~last'.handed
          /\ last'.text = <<>>
          /\ sent' = sent
          /\ pendingCmds' = pendingCmds]_vars

\* a call for a device of the loaded graph, made after the connection was lost
C6_Witness ==
  /\ last.op = "setControl"
  /\ last.res = "Not connected to Loxone"
  /\ last.pre = "DISCONNECTED"
  /\ cmStructure # NoGraph
  /\ Controls(cmStructure)[last.uuid] # NoControl

\* ---- C7: when buildControlCommand raises, setControl rejects with the error
\* that was raised, unchanged; buildControlCommand was called once, nothing is
\* handed to the Connection Session and no response is awaited.
C7_BuildErrorPropagates ==
  [][(/\ last'.op = "setControl"
      /\ setControlCheck(isConnected, cmStructure, last'.uuid) = "ok"
      /\ ~buildControlCommand(last'.uuid, Controls(cmStructure)[last'.uuid],
                              last'.command, last'.value).ok)
         => /\ last'.res = "raised"
            /\ last'.text = buildControlCommand(last'.uuid, Controls(cmStructure)[last'.uuid],
                                                last'.command, last'.value).text
            /\ last'.builds = 1
            /\ ~last'.handed
            /\ sent' = sent
            /\ pendingCmds' = pendingCmds]_vars

\* a Dimmer was sent setValue without a value
C7_Witness ==
  /\ last.op = "setControl"
  /\ last.res = "raised"
  /\ last.text = <<"Invalid command ", "setValue", " for Dimmer">>
  /\ last.pre = "CONNECTED"
  /\ sent = <<>>

\* ---- C8 as stated: every value or text event emitted while the system is
\* open, whose identifier decodes to a state-id and whose payload is present,
\* leaves that payload in the cache entry of that state-id.
C8_AsStated ==
  (/\ initialized
   /\ last.op \in {"event_value", "event_text"}
   /\ last.uuid # Null
   /\ last.payload # Undefined)
    => StateGetValue(last.uuid) = last.payload

C10_SnapshotIndependent ==
  [][/\ (last'.op = "getAll")
          => \E m \in snap' \ snap :
               /\ m # LiveMap
               /\ maps'[m] = maps[LiveMap]
               /\ maps'[LiveMap] = maps[LiveMap]
     /\ (last'.op = "snapshot")
          => /\ maps'[LiveMap] = maps[LiveMap]
             /\ StateSize' = StateSize
             /\ \A s \in StateIds : StateHas(s)' = StateHas(s)
                                     /\ StateGetValue(s)' = StateGetValue(s)
     /\ (last'.op \in {"set", "updateValue", "delete", "clear"})
          => \A m \in snap : maps'[m] = maps[m]]_vars

\* the caller added an entry to its Map, then the cache replaced another
C10_Witness ==
  \E m \in snap :
    /\ last.op = "updateValue"
    /\ maps[m][StateId1] # Absent
    /\ StateGet(StateId1) # Absent
    /\ maps[m][StateId1] # StateGet(StateId1)
    /\ maps[m][StateId2] # Absent
    /\ ~StateHas(StateId2)

C13_UndecodableIgnored ==
  [][(last'.op \in {"event_value", "event_text"} /\ last'.uuid = Null)
       => /\ maps' = maps
          /\ StateSize' = StateSize
          /\ last'.res = "none"]_vars

\* the router was listening, the cache held an entry, and an event with a
\* payload but without a decodable identifier was delivered
C13_Witness ==
  /\ last.op \in {"event_value", "event_text"}
  /\ last.uuid = Null
  /\ last.payload # Undefined
  /\ eventListeners > 0
  /\ StateSize > 0

\* ---- C11: the state value a runtime view shows is the one the cache held at
\* the getControl()/getControls() call that returned it (null for a state the
\* cache did not hold), and no later step (a push event, a time response, a
\* shutdown, another query) alters what a view already returned shows.
C11_ViewsReflectCallTime ==
  [][/\ \A v \in views' \ views :
          states(maps', v) = IF v.control.state # Null /\ StateHas(v.control.state)
                               THEN StateGetValue(v.control.state) ELSE JsNull
     /\ \A v \in views : v \in views' /\ states(maps', v) = states(maps, v)]_vars

\* a view returned before an event still shows null for a state the event has
\* since stored in the cache
C11_Witness ==
  \E v \in views :
    /\ last.op = "event_value"
    /\ last.uuid = v.control.state
    /\ StateGetValue(v.control.state) = <<"number", 1>>
    /\ states(maps, v) = JsNull

\* ---- C14 (amended): getControl(id) raises the connecting error when no graph
\* is loaded, the not-found error when id is not a key of the graph's controls
\* and the unsupported-control error when the entry under id is not a well-formed
\* control; in these cases it returns no view. Otherwise it returns one view, of
\* that device and its descriptor.
C14_GetControlOutcome ==
  [][last'.op = "getControl" =>
       LET control == Controls(cmStructure)[last'.uuid]
       IN IF cmStructure = NoGraph
            THEN last'.res = "Connecting to Smart Home. Try again later." /\ views' = views
          ELSE IF control = NoControl
            THEN last'.res = "Control not found" /\ views' = views
          ELSE IF ~isLoxoneControl(control)
            THEN last'.res = "Unsupported control type" /\ views' = views
          ELSE /\ last'.res = "ok"
               /\ Cardinality(views' \ views) = 1
               /\ \A v \in views' \ views : v.uuid = last'.uuid /\ v.control = control]_vars

\* a view was returned earlier, and a call for an entry without uuidAction raised
C14_Witness ==
  /\ last.op = "getControl"
  /\ last.res = "Unsupported control type"
  /\ Controls(cmStructure)[last.uuid] # NoControl
  /\ views # {}

\* C14 as stated: an error exactly when no graph is loaded or the id is not a
\* key, and a view of the device in every other case
C14_AsStated ==
  [][last'.op = "getControl" =>
       IF cmStructure = NoGraph \/ Controls(cmStructure)[last'.uuid] = NoControl
         THEN last'.res # "ok" /\ views' = views
         ELSE last'.res = "ok" /\ \E v \in views' \ views : v.uuid = last'.uuid]_vars

\* ---- C15: getControls(roomId, catId) returns exactly the supported devices
\* whose descriptor has that room and that category; a filter that is null or
\* absent is not applied, so with one filter the result is the devices matching
\* the other and with none it is every supported device.
C15_FilterAnd ==
  [][last'.op = "getControls" =>
       LET Supported == IF cmStructure = NoGraph THEN {}
                        ELSE {d \in DeviceIds : /\ Controls(cmStructure)[d] # NoControl
                                                /\ isLoxoneControl(Controls(cmStructure)[d])
                                                /\ isSupported(Controls(cmStructure)[d])}
           Absent_(f) == f \in {undefined, Null}
       IN /\ last'.result =
               {d \in Supported :
                  /\ Absent_(last'.room) \/ Controls(cmStructure)[d].room = last'.room
                  /\ Absent_(last'.cat) \/ Controls(cmStructure)[d].cat = last'.cat}
          /\ {v.uuid : v \in views' \ views} = last'.result]_vars

\* both filters given: of the two devices of room R1 only the one of category C2
C15_Witness ==
  /\ last.op = "getControls"
  /\ last.room = "R1"
  /\ last.cat = "C2"
  /\ last.result = {"D2"}
  /\ {v.uuid : v \in views} = {"D2"}
  /\ getControls(cmStructure, "R1", undefined) = {"D1", "D2"}

\* ---- C16: when the graph holds a descriptor whose type tag has no registry
\* entry (directly or through an alias), getControls() leaves that descriptor
\* out, ends without an error and returns every other well-formed descriptor
\* that passes the filters.
C16_UnsupportedSkipped ==
  [][(last'.op = "getControls" /\ cmStructure # NoGraph) =>
       LET present == {d \in DeviceIds : Controls(cmStructure)[d] # NoControl}
           NoEntry == {d \in present :
                         mapControlType(TypeOf(Controls(cmStructure)[d])) \notin RegisteredKinds}
       IN NoEntry # {} =>
            /\ last'.res = "ok"
            /\ last'.result \cap NoEntry = {}
            /\ \A d \in present \ NoEntry :
                 (/\ isLoxoneControl(Controls(cmStructure)[d])
                  /\ ~filteredOut(Controls(cmStructure)[d], last'.room, last'.cat))
                   => d \in last'.result]_vars

\* the graph with a Daytimer: an unfiltered call returned the Dimmer and the
\* Webpage (an alias of TextState) and left the Daytimer out
C16_Witness ==
  /\ last.op = "getControls"
  /\ ~FilterGiven(last.room) /\ ~FilterGiven(last.cat)
  /\ cmStructure # NoGraph
  /\ Controls(cmStructure)["D3"].type = "Daytimer"
  /\ last.result = {"D2", "D4"}

\* ---- C17 as stated: for an instance of every kind, registered or generic,
\* buildControlCommand("not-a-real-command") raises an error whose message
\* contains the command and a name of the kind: its type tag, its class or the
\* readable name the class uses for itself.
C17_AsStated ==
  LET KindNames(v) ==
        {v.kind, TypeOf(v.control), mapControlType(TypeOf(v.control))}
        \cup (CASE v.kind = "IRoomControllerV2" -> {"Room Controller"}
                [] v.kind = "IntercomV2"        -> {"Intercom"}
                [] v.kind = "EnergyManager2"    -> {"Energy Manager Gen. 2"}
                [] v.kind = "EnergyFlowMonitor" -> {"Energy Flow Monitor"}
                [] v.kind = "AudioZoneV2"       -> {"AudioZone"}
                [] OTHER                        -> {})
  IN (last.op = "buildControlCommand" /\ last.command = "not-a-real-command") =>
       \A v \in views :
         /\ last.res = "raised"
         /\ \E i \in DOMAIN last.text : last.text[i] = last.command
         /\ \E i \in DOMAIN last.text : \E k \in KindNames(v) :
              last.text[i] = k \/ last.text[i] = " for " \o k

\* ---- C18 as stated: for an instance of every registered kind, every command
\* it declares in availableControlCommands() and every valid value of that
\* command, buildControlCommand succeeds and returns a text of the wire grammar
\* that holds the instance's own id exactly once.
C18_AsStated ==
  LET ValidValues(c) ==
        CASE c.valueType = "none"   -> {undefined}
          [] c.valueType = "number" ->
               {x \in BuildValues : IsNumber(x) /\ c.min <= NumberOf(x) /\ NumberOf(x) <= c.max}
          [] c.valueType = "string" -> {"0,100,100"}
          [] OTHER                  -> c.options
      \* the wire grammar: jdev/sps/io/<id>/<word>, .../<command>/<value> or
      \* .../<command>(<csv>), with <id> the given id and nowhere else
      WireGrammar(text, id) ==
        /\ Len(text) \in {4, 6, 7}
        /\ text[1] = WirePrefix /\ text[2] = id /\ text[3] = "/"
        /\ Len(text) = 6 => text[5] = "/"
        /\ Len(text) = 7 => text[5] = "(" /\ text[7] = ")"
        /\ \A i \in 3 .. Len(text) : text[i] # id
  IN last.op = "buildControlCommand" =>
       \A v \in views : \A c \in availableControlCommands(v.control) :
         (v.kind # "Generic" /\ c.name = last.command /\ last.value \in ValidValues(c))
           => last.res = "ok" /\ WireGrammar(last.text, v.uuid)

\* ---- C19 as stated: when shutdown() returns, with the system opened at most
\* once before, the State Cache has size 0: nothing delivered during the
\* shutdown has added an entry.
C19_AsStated ==
  (last.op = "close" /\ last.res = "closed" /\ nOpens <= 1) => StateSize = 0

\* ---- C20 as stated: when shutdown() has completed, the Connection Session's
\* cached graph is null and the Device Manager answers from no graph:
\* getControls returns nothing and getControl raises for every device.
C20_AsStated ==
  (last.op = "close" /\ last.res = "closed")
    => /\ structure = NoGraph
       /\ getControls(cmStructure, undefined, undefined) = {}
       /\ \A d \in DeviceIds : getControlCheck(cmStructure, d) # "ok"

\* ---- C22: the registry resolves a tag through the alias table first, then as
\* a tag of the enum, otherwise to Unknown; create() returns the class
\* registered for the resolved tag, and the generic fallback exactly when
\* isSupported() is false, which includes the empty and the missing tag.
C22_RegistryResolution ==
  \A v \in views :
    LET tag == IF v.control.type = Null THEN "" ELSE v.control.type
        resolved == mapControlType(tag)
        expected == CASE tag = "EFM" -> "EnergyFlowMonitor"
                      [] tag \in {"TextInput", "Webpage"} -> "TextState"
                      [] tag \in ControlType -> tag
                      [] OTHER -> "Unknown"
    IN /\ resolved = expected
       /\ (v.kind = "Generic") <=> ~isSupported(v.control)
       /\ isSupported(v.control) => v.kind = controlTypeMap[resolved]
       /\ tag \in {"", "Bogus", "Daytimer"} => v.kind = "Generic"
       /\ tag \in {"DigitalInput", "InfoOnlyDigital"} => v.kind = "InfoOnlyDigital"

\* an instance was created for an alias tag and used
C22_Witness ==
  /\ last.op = "buildControlCommand"
  /\ \E v \in views : v.control.type = "EFM" /\ v.kind = "EnergyFlowMonitor"

\* ---- C23 as stated: whenever isConnected() is true or sendCommand() would let a
\* command through, the latest connect() call has seen the client's
\* authenticated notification (its authentication promise is no longer pending).
C23_AsStated ==
  (isConnected \/ sendCommandCheck(client, state) = "ok")
    => (nAtt > 0 /\ att[nAtt].auth # "pending")

\* ---- C24: a disconnected notification starts exactly one delayed reconnection
\* attempt when the state was CONNECTED and the counter was below 3, and none
\* otherwise; nothing else starts one, and the counter never exceeds 3.
C24_ReconnectBounded ==
  [][/\ last'.op = "disconnected" =>
           IF state = "CONNECTED" /\ reconnectAttempts < 3
             THEN /\ reconnectTimers' = reconnectTimers + 1
                  /\ reconnectAttempts' = reconnectAttempts + 1
             ELSE UNCHANGED <<reconnectTimers, reconnectAttempts>>
     /\ reconnectTimers' > reconnectTimers => last'.op = "disconnected"
     /\ reconnectAttempts' <= 3]_vars

\* the third reconnection attempt was scheduled by a disconnect of a connected session
C24_Witness ==
  /\ last.op = "disconnected"
  /\ last.pre = "CONNECTED"
  /\ last.attempts = 2
  /\ reconnectAttempts = 3
  /\ reconnectTimers = 1

\* ---- C25 (amended): the attempt counter goes down, and then to 0, only by an
\* authenticated notification of the external client or by the return of
\* close(); no failing, timed-out or merely connected attempt lowers it, and
\* every authenticated notification resets it.
C25_CounterReset ==
  [][/\ reconnectAttempts' < reconnectAttempts
          => /\ reconnectAttempts' = 0
             /\ \/ last'.op = "authenticated"
                \/ last'.op = "close" /\ last'.res = "closed"
     /\ last'.op = "authenticated" => reconnectAttempts' = 0]_vars

\* a reconnection attempt started by the timer was authenticated and the counter,
\* which was positive, is 0
C25_Witness ==
  /\ last.op = "authenticated"
  /\ last.attempts > 0
  /\ reconnectAttempts = 0
  /\ nAtt = 2
  /\ att[2].by = "timer"
  /\ att[2].pc = "enableUpdates"

\* C25 as stated: the counter returns to 0 only by an authenticated notification
C25_AsStated ==
  [][(reconnectAttempts' = 0 /\ reconnectAttempts > 0) => last'.op = "authenticated"]_vars

\* ---- C26 as stated: the state becomes ERROR only from CONNECTING or CONNECTED,
\* and a connect() call rejected because the session is not initialized leaves
\* the state as it was.
C26_AsStated ==
  [][/\ (state' = "ERROR" /\ state # "ERROR") => state \in {"CONNECTING", "CONNECTED"}
     /\ (last'.op = "connect" /\ last'.res = "ConnectionManager not initialized")
          => state' = state]_vars

\* ---- C27 as stated: when a connect() call that started a handshake resolves
\* (its loadStructure() has returned), with no shutdown in between, the state is
\* CONNECTED and the device graph is loaded.
C27_AsStated ==
  (last.op = "loadStructure" /\ nShutdowns = 0)
    => (state = "CONNECTED" /\ structure # NoGraph /\ structureLoaded)

\* ---- C28 as stated: once close() has completed (DISCONNECTED, no client), no
\* step other than a new initialize() changes the state, gives the session a
\* client or starts a handshake.
C28_AsStated ==
  [][(nShutdowns > 0 /\ state = "DISCONNECTED" /\ client = 0 /\ nOpens' = nOpens)
       => (state' = "DISCONNECTED" /\ client' = 0 /\ nAtt' = nAtt)]_vars

\* ---- C21: initialize(config) rejects a config that lacks host, username or
\* password, or that names an unsupported or a secure (https, wss) protocol, and
\* then constructs no client and leaves the state and the client handle as they
\* were; every other config makes it construct a new client and set INITIALIZED.
C21_InitializeValidates ==
  [][last'.op = "initialize" =>
       LET cfg == last'.config
           lacks == \E f \in {"host", "username", "password"} : cfg[f] \in {undefined, ""}
           badProtocol == \/ cfg.protocol \notin {undefined, "http"}
                          \/ cfg.wsProtocol \notin {undefined, "ws"}
       IN IF lacks \/ badProtocol
            THEN /\ last'.res # "ok"
                 /\ UNCHANGED <<state, client, nOpens, clientListening>>
            ELSE /\ last'.res = "ok"
                 /\ nOpens' = nOpens + 1
                 /\ client' \notin {0, client}
                 /\ client' \in clientListening'
                 /\ state' = "INITIALIZED"]_vars

\* ---- C29 as stated: after a finished shutdown() and a successful open(), a value or text
\* event emitted by the new connection, whose identifier decodes to a state-id
\* and whose payload is present, leaves that payload in the cache entry of that
\* state-id, as it did before the shutdown.
C29_AsStated ==
  (/\ nShutdowns > 0
   /\ closing = 0
   /\ nOpens > 1
   /\ initialized
   /\ state = "CONNECTED"
   /\ client = nOpens
   /\ clientListening = {client}
   /\ last.op \in {"event_value", "event_text"}
   /\ last.pre = "CONNECTED"
   /\ last.uuid # Null
   /\ last.payload # Undefined)
    => StateGetValue(last.uuid) = last.payload

\* ---- C30: the Event Router has at most one handler on the value and text
\* channels at any time, exactly when isListening is set, whatever number of
\* reconnect cycles has occurred; an event step writes at most the one cache
\* entry of its state-id, once; after cleanup() no handler is registered and
\* an event leaves the cache as it is.
C30_SingleHandler ==
  [][/\ eventListeners' \in {0, 1}
     /\ eventListeners' = (IF isListening' THEN 1 ELSE 0)
     /\ nShutdowns' > 0 => eventListeners' = 0
     /\ last'.op \in {"event_value", "event_text"}
          => /\ IF last'.uuid # Null /\ last'.payload # Undefined
                  THEN maps' \in {maps, updateValue(maps, last'.uuid, last'.payload, clock)}
                  ELSE maps' = maps
             /\ nShutdowns > 0 => maps' = maps]_vars

\* after a reconnect cycle, a shutdown and a second open() the new client emits
\* an event with a decodable id and a payload, and the cache stays empty
C30_Witness ==
  /\ last.op \in {"event_value", "event_text"}
  /\ last.uuid # Null
  /\ last.payload # Undefined
  /\ nShutdowns = 1
  /\ nOpens = 2
  /\ reconnectTimers > 0
  /\ eventListeners = 0
  /\ ~isListening
  /\ StateSize = 0

\* ---- C31 as stated: at most one connect() call that started a handshake has
\* not yet settled, whether a caller or a reconnect timer made the calls.
C31_AsStated ==
  Cardinality({a \in 1 .. nAtt : att[a].pc # "done"}) <= 1

\* ---- C32 as stated: when the authentication timer of a connect() call fires
\* after that call has left the race (it went on to enableUpdates or has
\* settled), the authenticated/disconnected handlers that other connect() calls
\* registered stay registered and the session state stays as it is.
C32_AsStated ==
  [][\A a \in Attempts :
       (/\ last'.op = "authTimeout"
        /\ att[a].timer = "armed"
        /\ att'[a].timer = "none"
        /\ att[a].pc # "race")
         => /\ state' = state
            /\ \A b \in Attempts \ {a} : \A g \in Clients :
                 /\ <<b, g>> \in onceAuth => <<b, g>> \in onceAuth'
                 /\ <<b, g>> \in onceDisc => <<b, g>> \in onceDisc']_vars

\* ---- C33: retry(fn, n, d) calls fn at most n times; it resolves with the
\* value of the first call that succeeds and makes no call after it; before
\* call k + 1 it has slept d * 2^i after each failed call i = 0 .. k - 1 and
\* never otherwise, so never after failure n - 1; after n failures (n >= 1) it
\* rejects with the error of the last call; with n = 0 it calls nothing and
\* rejects; loadStructure() passes n = 3 and d = 1000.
C33_RetryContract ==
  LET run == retryRun
      failed == {k \in 1 .. Len(run.outcomes) : run.outcomes[k][1] = "rejected"}
  IN /\ LoadStructureRetries = 3
     /\ LoadStructureBaseDelay = 1000
     /\ run.pc # "idle" =>
          /\ run.calls <= run.maxRetries
          /\ \A k \in 1 .. Len(run.waits) : run.waits[k] = run.baseDelay * (2 ^ (k - 1))
          /\ run.pc = "calling" =>
               /\ Len(run.outcomes) = run.calls - 1
               /\ failed = 1 .. (run.calls - 1)
               /\ Len(run.waits) = run.calls - 1
          /\ run.pc = "waiting" =>
               /\ Len(run.outcomes) = run.calls
               /\ failed = 1 .. run.calls
               /\ run.calls < run.maxRetries
               /\ Len(run.waits) = run.calls
          /\ run.pc = "resolved" =>
               /\ Len(run.outcomes) = run.calls
               /\ failed = 1 .. (run.calls - 1)
               /\ run.outcomes[run.calls] = <<"resolved", run.result>>
               /\ Len(run.waits) = run.calls - 1
          /\ run.pc = "rejected" =>
               /\ run.calls = run.maxRetries
               /\ Len(run.outcomes) = run.maxRetries
               /\ failed = 1 .. run.maxRetries
               /\ Len(run.waits) = (IF run.maxRetries = 0 THEN 0 ELSE run.maxRetries - 1)
               /\ run.maxRetries > 0 => run.outcomes[run.maxRetries] = <<"rejected", run.result>>
               /\ run.maxRetries = 0 => run.result = "undefined"

\* a retry() with four tries and a base delay of 1000 ms has failed four times,
\* slept 1000, 2000 and 4000 ms, and rejects with the last error, not the first
C33_Witness ==
  /\ retryRun.pc = "rejected"
  /\ retryRun.maxRetries = 4
  /\ retryRun.calls = 4
  /\ retryRun.waits = <<1000, 2000, 4000>>
  /\ retryRun.outcomes[1] = <<"rejected", "E1">>
  /\ retryRun.result = "E2"

\* ---- C34: a connect() call that has won the race sets CONNECTED and calls
\* enableUpdates(); only from there it goes on to load the graph; when
\* enableUpdates() fails, or the load fails for good after its retries, the
\* call rejects with that failure and the state is ERROR at that moment.
C34_HandshakeOrder ==
  [][\A a \in Attempts :
       /\ (att[a].pc # "enableUpdates" /\ att'[a].pc = "enableUpdates")
            => (att[a].pc \in {"clientConnect", "race"} /\ state' = "CONNECTED")
       /\ (att[a].pc # "getStructure" /\ att'[a].pc = "getStructure")
            => (att[a].pc \in {"enableUpdates", "backoff"} /\ att[a].auth = "settled")
       /\ (att[a].pc \in {"clientConnect", "race"} /\ att'[a].pc # att[a].pc)
            => att'[a].pc \in {"race", "enableUpdates", "done"}
       /\ (att[a].pc = "enableUpdates" /\ att'[a].pc = "done")
            => /\ state' = "ERROR"
               /\ last'.op = "connectRejects"
               /\ last'.res \in {"enableUpdates failed", "Client not initialized"}
       /\ (att[a].pc \in {"getStructure", "backoff"} /\ att'[a].pc = "done")
            => \/ last'.op = "loadStructure" /\ structureLoaded' /\ state' = state
               \/ /\ state' = "ERROR"
                  /\ last'.op = "connectRejects"
                  /\ last'.res \in {"getStructureFile failed", "Client became null during retry"}
                  /\ att[a].pc = "getStructure" => att[a].retryI = LoadStructureRetries - 1
                  /\ att[a].pc = "backoff" => att[a].retryI = LoadStructureRetries - 2]_vars

\* the second connect() call, made by the reconnect timer, has authenticated,
\* enabled the updates, and failed to load the graph three times
C34_Witness ==
  /\ last.op = "connectRejects"
  /\ last.res = "getStructureFile failed"
  /\ last.pre = "CONNECTED"
  /\ state = "ERROR"
  /\ nAtt = 2
  /\ att[2].pc = "done"
  /\ ~structureLoaded

\* ---- C35 as stated: when the client emits 'disconnected' while a connect()
\* call has started its handshake and has not been authenticated, that call is
\* rejected with 'Connection failed': a call waiting in the race rejects at
\* once and the state is ERROR, a call still waiting for client.connect() has
\* its authPromise rejected.
C35_AsStated ==
  [][\A a \in Attempts :
       (last'.op = "disconnected" /\ att[a].auth = "pending")
         => /\ att[a].pc = "race"
                 => (att'[a].pc = "done" /\ state' = "ERROR" /\ last'.res = "Connection failed")
            /\ att[a].pc = "clientConnect" => att'[a].auth = "rejected"]_vars

\* ---- C36: a 'disconnected' notification changes the connection state, the
\* reconnect counter and timer and the handshake in progress, and nothing
\* else: the cache, the graphs of the session and of the Device Manager and
\* the structureLoaded flag stay as they are; while the session is not
\* connected getControl and getControls answer from that graph, and
\* setControl fails with 'Not connected to Loxone' and sends nothing.
C36_DisconnectFrame ==
  [][/\ last'.op = "disconnected"
          => /\ state' \in {"DISCONNECTED", "ERROR"}
             /\ UNCHANGED <<maps, cmStructure, structure, structureLoaded, client,
                            clientListening, structListeners, eventListeners, isListening,
                            snap, views, timeRequests, sent, pendingCmds, initialized>>
     /\ (state # "CONNECTED" /\ last'.op = "setControl")
          => (last'.res = "Not connected to Loxone" /\ UNCHANGED <<sent, pendingCmds>>)
     /\ (state # "CONNECTED" /\ last'.op = "getControl")
          => /\ last'.res = getControlCheck(cmStructure, last'.uuid)
             /\ last'.res = "ok" =>
                  \E v \in views' \ views :
                    v.uuid = last'.uuid /\ maps'[v.map] = maps[LiveMap]
     /\ (state # "CONNECTED" /\ last'.op = "getControls")
          => last'.result = getControls(cmStructure, last'.room, last'.cat)]_vars

\* the session loaded a graph, received a value and lost the connection; with
\* the reconnect timer pending, getControl returns a view that shows the value
C36_Witness ==
  /\ last.op = "getControl"
  /\ last.res = "ok"
  /\ last.pre = "DISCONNECTED"
  /\ reconnectTimers = 1
  /\ structureLoaded
  /\ \E v \in views : v.uuid = last.uuid /\ states(maps, v) = <<"number", 1>>

\* ---- C37 as stated: for every loaded graph and every id, getControl(id)
\* returns a view exactly when id is among the devices that getControls()
\* without filters returns.
C37_AsStated ==
  cmStructure # NoGraph
    => \A d \in DeviceIds :
         getControlCheck(cmStructure, d) = "ok" <=> d \in getControls(cmStructure, undefined, undefined)

\* ---- C38 as stated: for an instance of every kind, buildControlCommand
\* returns a command text only for a command name that availableControlCommands()
\* of that instance declares; the generic fallback, which declares none, raises
\* for every name.
C38_AsStated ==
  (last.op = "buildControlCommand" /\ last.res = "ok") =>
    \A v \in views :
      /\ v.kind # "Generic"
      /\ \E c \in availableControlCommands(v.control) : c.name = last.command

\* a secure configuration was rejected on a session that had been initialized
C21_Witness ==
  /\ last.op = "initialize"
  /\ last.res = "HTTPS/WSS protocol is not supported"
  /\ last.config.wsProtocol = "wss"
  /\ last.pre = "INITIALIZED"
  /\ state = "INITIALIZED"
  /\ client = 1

\* C39 (as stated): the view of a CentralAlarm, CentralAudioZone, CentralGate,
\* CentralJalousie or CentralWindow instance lists no states, whatever its
\* state is called and whatever the Map holds for it.
C39_AsStated ==
  last.op = "formattedStates" =>
    \A v \in views :
      v.kind \in {"CentralAlarm", "CentralAudioZone", "CentralGate", "CentralJalousie",
                  "CentralWindow"} => last.result = {}

\* C40 (as stated): a built wire text of the form <command>(<value>) holds
\* exactly one '(' and one ')': the two the builder writes, none from the value.
C40_AsStated ==
  LET opens(t)  == IF t \in {"(", "(0,100,100)"} THEN 1 ELSE 0
      closes(t) == IF t \in {")", "(0,100,100)"} THEN 1 ELSE 0
      Sum(f(_), text) ==
        LET sum[i \in 0 .. Len(text)] == IF i = 0 THEN 0 ELSE sum[i - 1] + f(text[i])
        IN sum[Len(text)]
  IN (last.op = "buildControlCommand" /\ last.res = "ok"
        /\ \E i \in 1 .. Len(last.text) : last.text[i] = "(")
       => Sum(opens, last.text) = 1 /\ Sum(closes, last.text) = 1

TypeOK ==
  /\ state \in ConnectionState
  /\ client \in {0} \cup Clients
  /\ structure \in {NoGraph} \cup Graphs
  /\ cmStructure \in {NoGraph} \cup Graphs
  /\ reconnectAttempts \in 0 .. MAX_RECONNECT_ATTEMPTS
  /\ nAtt \in {0} \cup Attempts
  /\ Len(sent) <= MaxSends

====
